---- MODULE Spec2Model ----
(***************************************************************************)
(* musee-api: the download pipeline (src/src/download.ts) together with    *)
(* the catalog operations it shares state with (src/src/tracks.ts,         *)
(* src/src/db.ts).                                                         *)
(*                                                                         *)
(* JavaScript runs one handler or continuation at a time, to its next      *)
(* await: every action below is one such turn.  An async function is cut   *)
(* at its awaits; run[t].pc names the await a run is suspended at.         *)
(***************************************************************************)
EXTENDS Integers, Sequences, FiniteSets, TLC

VARIABLES
  tasks,        \* the TaskMap: task id -> DownloadTask (ids are 1, 2, ... in creation order)
  run,          \* per task: the locals of its runDownload call and the await it is at
  tracks,       \* table tracks
  nextTrackId,  \* the AUTOINCREMENT sequence of table tracks
  lyrics,       \* table lyrics
  files,        \* the files in config.audioDir: file name -> bytes
  deleted,      \* ids of the rows DELETE /tracks/{id} has removed
  uploads,      \* the calls of the upload handler that are suspended at an await
  response      \* the HTTP response produced by the last turn, if it was a handler

vars == <<tasks, run, tracks, nextTrackId, lyrics, files, deleted, uploads, response>>

(* ----------------------------- bounds ---------------------------------- *)

\* Number of tasks POST /download may create in one behaviour.
MaxTasks == 2

\* The upload requests that may be suspended at one time.
MaxUploads == 2

(* ------------------------ nullable values ------------------------------ *)

\* A nullable value v | null is <<v>> or <<>>.
Null == <<>>
Some(v) == <<v>>
Val(o) == o[1]

\* const x = v; F(x): the value of F for the value of v, which is worked out
\* once, however often F refers to it.
With(v, F(_)) == CHOOSE r \in {F(x) : x \in {v}} : TRUE

(* --------------------------- pure helpers ------------------------------- *)

\* Texts are sequences of tokens; a token is a run of characters that the
\* regular expressions of download.ts consume as a unit.
UrlPrefixes == {"youtube.com/watch?v=", "youtu.be/", "youtube.com/embed/"}

\* Tokens that are exactly eleven characters of [\w-].
Id11 == {"dQw4w9WgXcQ", "9bZkp7q19f0"}

watchA == <<"https://www.", "youtube.com/watch?v=", "dQw4w9WgXcQ">>
watchB == <<"https://www.", "youtube.com/watch?v=", "9bZkp7q19f0">>
otherSite == <<"https://", "example.com">>

\* The URLs requests carry.
Urls == {watchA, watchB, otherSite}

\* Other forms of URL and text: the short and embed forms, a watch URL with a
\* parameter after or before v=, a URL of another site that carries a short
\* URL in its query, and text that is no URL.
shortA == <<"https://", "youtu.be/", "dQw4w9WgXcQ">>
shortB == <<"https://", "youtu.be/", "9bZkp7q19f0">>
embedA == <<"https://www.", "youtube.com/embed/", "dQw4w9WgXcQ">>
watchListA == <<"https://www.", "youtube.com/watch?v=", "dQw4w9WgXcQ", "&list=PLtest">>
watchTimeA == <<"https://www.", "youtube.com/watch?", "t=1&v=", "dQw4w9WgXcQ">>
otherSiteShortA == <<"https://", "example.com", "/?u=", "youtu.be/", "dQw4w9WgXcQ">>
notAUrl == <<"not a url">>

UrlForms ==
  Urls \cup {shortA, shortB, embedA, watchListA, watchTimeA, otherSiteShortA}

\* Mutant: the pattern knows the watch form only.
YOUTUBE_REGEX_watchOnly(url) ==
  LET hits == {i \in 1..(Len(url) - 1) :
                 url[i] = "youtube.com/watch?v=" /\ url[i + 1] \in Id11}
  IN IF hits = {} THEN Null
     ELSE Some(url[(CHOOSE i \in hits : \A j \in hits : i <= j) + 1])

\* url.match(YOUTUBE_REGEX): the leftmost prefix followed by eleven id characters.
YOUTUBE_REGEX(url) ==
  LET hits == {i \in 1..(Len(url) - 1) : url[i] \in UrlPrefixes /\ url[i + 1] \in Id11}
  IN IF hits = {} THEN Null
     ELSE Some(url[(CHOOSE i \in hits : \A j \in hits : i <= j) + 1])

extractYoutubeId(url) == YOUTUBE_REGEX(url)

(* ------------------------------ numbers -------------------------------- *)

\* Digits after the decimal point that numbers keep: the number x is the
\* integer x * Scale, and NaN is the one negative value.
FractionDigits == 2

RECURSIVE Pow10(_)
Pow10(n) == IF n = 0 THEN 1 ELSE 10 * Pow10(n - 1)

Scale == Pow10(FractionDigits)

NaN == 0 - 1

DigitChars == <<"0", "1", "2", "3", "4", "5", "6", "7", "8", "9">>

\* \d
isDigit(c) == \E i \in 1..10 : DigitChars[i] = c

\* String(n) and ${n} in a template literal: the decimal digits, one token each.
RECURSIVE String(_)
String(n) ==
  IF n < 0 THEN <<"-">> \o String(0 - n)
  ELSE IF n < 10 THEN <<DigitChars[n + 1]>>
  ELSE String(n \div 10) \o <<DigitChars[(n % 10) + 1]>>

\* Number.parseInt(digits, 10) of a non-empty run of digits.
RECURSIVE parseInt(_)
parseInt(digits) ==
  IF digits = <<>> THEN 0
  ELSE 10 * parseInt(SubSeq(digits, 1, Len(digits) - 1))
       + ((CHOOSE i \in 1..10 : DigitChars[i] = digits[Len(digits)]) - 1)

\* The end of the longest run of digits of h that starts at i (i - 1: none).
digitRunEnd(h, i) ==
  CHOOSE j \in (i - 1)..Len(h) :
    /\ \A k \in i..j : isDigit(h[k])
    /\ j = Len(h) \/ ~isDigit(h[j + 1])

\* The end of the longest run of tokens of class S in h that starts at i
\* (i - 1: none).
runEnd(h, i, S) ==
  CHOOSE j \in (i - 1)..Len(h) :
    /\ \A k \in i..j : h[k] \in S
    /\ j = Len(h) \/ h[j + 1] \notin S

\* Number.parseFloat(s): the value of the longest prefix of s that is a
\* decimal literal (digits, optionally a point and digits; or a point and
\* digits), NaN when there is none.
parseFloat(s) ==
  LET fracOf(intEnd) ==
        SubSeq(s, intEnd + 2,
               IF intEnd + 1 <= Len(s) /\ s[intEnd + 1] = "."
               THEN digitRunEnd(s, intEnd + 2) ELSE intEnd + 1)
      value(intEnd, frac) ==
        IF intEnd = 0 /\ frac = <<>> THEN NaN
        ELSE parseInt(SubSeq(s, 1, intEnd)) * Scale
               + (parseInt(frac) * Pow10(FractionDigits)) \div Pow10(Len(frac))
  IN With(digitRunEnd(s, 1), LAMBDA intEnd : With(fracOf(intEnd), LAMBDA frac : value(intEnd, frac)))

(* ------------------------- progress lines ------------------------------ *)

\* The characters of a token: the tokens of the tool's output that stand
\* for several characters, spelled out.
chars(tok) ==
  CASE tok = "[download] " -> <<"[download]", " ">>
    [] tok = "50%" -> <<"5", "0", "%">>
    [] OTHER -> <<tok>>

RECURSIVE spell(_)
spell(text) == IF text = <<>> THEN <<>> ELSE chars(Head(text)) \o spell(Tail(text))

\* \s and [\d.]
Space == {" ", "\t", "\n"}
DigitOrDot == {DigitChars[i] : i \in 1..10} \cup {"."}

\* The match of /\[download\]\s+([\d.]+)%/ in c at position i, if there is
\* one: <<i, j, k>>, the whitespace ending at j and the group at k.
progressAt(c, i) ==
  LET found(j, k) ==
        IF j >= i + 1 /\ k >= j + 1 /\ k + 1 <= Len(c) /\ c[k + 1] = "%"
        THEN {<<i, j, k>>} ELSE {}
      group(j) == With(runEnd(c, j + 1, DigitOrDot), LAMBDA k : found(j, k))
  IN IF c[i] = "[download]" THEN With(runEnd(c, i + 1, Space), group) ELSE {}

\* The matches of the pattern in c.
progressMatches(c) == UNION {progressAt(c, i) : i \in 1..Len(c)}

\* line.match(PROGRESS_REGEX): the group of the leftmost match anywhere in
\* the line; Null when there is none.
PROGRESS_REGEX(line) ==
  LET group(c, m) == Some(SubSeq(c, m[2] + 1, m[3]))
      leftmost(c, ms) ==
        IF ms = {} THEN Null
        ELSE group(c, CHOOSE m \in ms : \A m2 \in ms : m[1] <= m2[1])
  IN With(spell(line), LAMBDA c : With(progressMatches(c), LAMBDA ms : leftmost(c, ms)))

parseProgress(line) ==
  LET number(match) == IF match # Null THEN Some(parseFloat(Val(match))) ELSE Null
  IN With(PROGRESS_REGEX(line), number)

\* buffer.split("\n"): the pieces between newline tokens (always at least one).
RECURSIVE split(_)
split(text) ==
  IF \A i \in 1..Len(text) : text[i] # "\n" THEN <<text>>
  ELSE LET rest(k) == <<SubSeq(text, 1, k - 1)>> \o split(SubSeq(text, k + 1, Len(text)))
       IN With(CHOOSE i \in 1..Len(text) :
                 text[i] = "\n" /\ \A j \in 1..(i - 1) : text[j] # "\n", rest)

\* Mutant: progress is only ever raised.
RECURSIVE applyLines_monotonic(_, _)
applyLines_monotonic(progress, lines) ==
  IF lines = <<>> THEN progress
  ELSE LET next(p) == IF p # Null /\ Val(p) > progress THEN Val(p) ELSE progress
       IN applyLines_monotonic(With(parseProgress(Head(lines)), next), Tail(lines))

\* for (const line of lines) { ... task.progress = progress }
RECURSIVE applyLines(_, _)
applyLines(progress, lines) ==
  IF lines = <<>> THEN progress
  ELSE LET next(p) == IF p # Null THEN Val(p) ELSE progress
       IN applyLines(With(parseProgress(Head(lines)), next), Tail(lines))

\* config.defaultFormat
defaultFormat == "opus"

\* `${youtubeId}.${format}`
Filename(youtubeId, format) == <<youtubeId, ".", format>>

\* String(exitCode) inside the template literal.
Str(n) == IF n = 0 THEN "0" ELSE IF n = 1 THEN "1" ELSE "n"

(* ----------------------- the outside world ----------------------------- *)

\* Request bodies: format is optional.
FormatInputs == {Null}

\* What the metadata probe may print.
MetaTexts == {"{title,uploader}", "{}", "not json"}

\* Mutant: the assignments lack their ?? "Unknown".
ParseMeta_noFallback(metaText) ==
  IF metaText = "{title,uploader}"
  THEN [title |-> "Song", artist |-> "Uploader"]
  ELSE IF metaText = "{}"
  THEN [title |-> "undefined", artist |-> "undefined"]
  ELSE [title |-> "Unknown", artist |-> "Unknown"]

\* JSON.parse(metaText) and the three assignments after it; a parse error
\* leaves the defaults, a missing field falls back to "Unknown".
ParseMeta(metaText) ==
  IF metaText = "{title,uploader}"
  THEN [title |-> "Song", artist |-> "Uploader"]
  ELSE [title |-> "Unknown", artist |-> "Unknown"]

\* What the extract+transcode process may print on stdout.
Outputs == { <<"[download] ", "50%", "\n">> }

ExitCodes == {0, 1}

\* The longest chunk reader.read() can deliver: the longest output.
MaxChunk == CHOOSE n \in 0..8 : /\ \A o \in Outputs : Len(o) <= n
                                /\ \E o \in Outputs : Len(o) = n

Stderrs == {"ERROR: Video unavailable"}

\* What searchLrclib may resolve to (it never rejects: it catches everything).
LyricsResults == {Null, Some([content |-> <<"la la">>, isSynced |-> FALSE])}

(* ---------------------------- the file system -------------------------- *)

\* A file of n bytes; the byte at offset i is i, so that a slice shows
\* where it was cut.
Bytes(n) == [i \in 1..n |-> i - 1]

\* An empty directory.
NoFiles == [name \in {} |-> <<>>]

\* The tool (or a test's writeFileSync) writes a file.
writeFile(fs, name, bytes) ==
  [n \in DOMAIN fs \cup {name} |-> IF n = name THEN bytes ELSE fs[n]]

\* try { unlinkSync(...) } catch {}
unlinkSync(fs, name) == [n \in DOMAIN fs \ {name} |-> fs[n]]

\* What the extract+transcode process leaves at outputPath when it exits with 0.
toolFile == Bytes(2)

(* ------------------------------ state ---------------------------------- *)

NoResponse == [op |-> "none"]

Init ==
  /\ tasks = <<>>
  /\ run = <<>>
  /\ tracks = {}
  /\ nextTrackId = 1
  /\ lyrics = {}
  /\ files = NoFiles
  /\ deleted = {}
  /\ uploads = <<>>
  /\ response = NoResponse

(* --------------------------- the registry ------------------------------ *)

\* Mutant: the new task is created already downloading.
createTask_notPending(tsks, url) ==
  [id |-> Len(tsks) + 1, url |-> url, status |-> "downloading", progress |-> 0,
   trackId |-> Null, error |-> Null, createdAt |-> Len(tsks),
   history |-> <<"downloading">>]

\* createTask: the new task; `history` lists every value assigned to status.
\* crypto.randomUUID() is a value no earlier task has: the next index.
\* Date.now() is the reading of a clock that ticks once per task created.
createTask(tsks, url) ==
  [id |-> Len(tsks) + 1, url |-> url, status |-> "pending", progress |-> 0,
   trackId |-> Null, error |-> Null, createdAt |-> Len(tsks),
   history |-> <<"pending">>]

\* task.status = s
setStatus(task, s) == [task EXCEPT !.status = s, !.history = Append(@, s)]

\* Mutant: the catch block records the failure but not its message.
catchBlock_noMessage(task, message) == setStatus(task, "failed")

\* Mutant: the catch block records the message but leaves the status alone.
catchBlock_noStatus(task, message) == [task EXCEPT !.error = Some(message)]

\* The catch block of runDownload.
catchBlock(task, message) == [setStatus(task, "failed") EXCEPT !.error = Some(message)]

\* Mutant: completed is set, progress is left as it was.
complete_keepsProgress(task) == setStatus(task, "completed")

\* The last two assignments of the try block.
complete(task) == [setStatus(task, "completed") EXCEPT !.progress = 100 * Scale]

\* The body of GET /download/{taskId}/status.
statusBody(task) ==
  [id |-> task.id, status |-> task.status, progress |-> task.progress,
   track_id |-> task.trackId, error |-> task.error]

(* ---------------------------- the database ----------------------------- *)

\* SELECT ... FROM tracks WHERE youtube_id = ?
findByYoutubeId(rows, youtubeId) ==
  IF \E r \in rows : r.youtube_id = Some(youtubeId)
  THEN Some(CHOOSE r \in rows : r.youtube_id = Some(youtubeId))
  ELSE Null

\* SELECT * FROM tracks WHERE id = ?
findById(rows, id) ==
  IF \E r \in rows : r.id = id THEN Some(CHOOSE r \in rows : r.id = id) ELSE Null

\* Mutant: the INSERT leaves the youtube_id column out.
newTrack_noYoutubeId(id, title, artist, url, youtubeId, filename, format) ==
  [id |-> id, title |-> title, artist |-> artist, youtube_url |-> url,
   youtube_id |-> Null, filename |-> filename, format |-> format,
   thumbnail |-> Null]

\* Mutant: the INSERT stores the audio file's name as the thumbnail.
newTrack_setsThumbnail(id, title, artist, url, youtubeId, filename, format) ==
  [id |-> id, title |-> title, artist |-> artist, youtube_url |-> url,
   youtube_id |-> youtubeId, filename |-> filename, format |-> format,
   thumbnail |-> Some(filename)]

\* The row INSERT INTO tracks (...) RETURNING * builds; thumbnail gets no value.
newTrack(id, title, artist, url, youtubeId, filename, format) ==
  [id |-> id, title |-> title, artist |-> artist, youtube_url |-> url,
   youtube_id |-> youtubeId, filename |-> filename, format |-> format,
   thumbnail |-> Null]

\* Mutant: the column is declared without UNIQUE.
uniqueYoutubeId_notDeclared(rows, youtubeId) == TRUE

\* youtube_id TEXT UNIQUE: may a row with this youtube_id be inserted?
uniqueYoutubeId(rows, youtubeId) == \A r \in rows : r.youtube_id # youtubeId

\* lyrics.track_id: UNIQUE, REFERENCES tracks(id); may this row be inserted?
lyricsInsertable(rows, lrows, trackId) ==
  /\ findById(rows, trackId) # Null
  /\ \A l \in lrows : l.track_id # trackId

(* ------------------------------ errors --------------------------------- *)

\* Mutant: the message leaves the captured stderr out.
exitError_noStderr(exitCode, stderr) == <<"yt-dlp exited with code ", Str(exitCode)>>

\* new Error(`yt-dlp exited with code ${exitCode}: ${stderr}`).message
exitError(exitCode, stderr) == <<"yt-dlp exited with code ", Str(exitCode), ": ", stderr>>

\* What Bun.spawn throws when the executable cannot be started.
spawnError == <<"Executable not found in $PATH: ", "yt-dlp">>

\* What the INSERT throws when youtube_id is taken.
uniqueError == <<"UNIQUE constraint failed: tracks.youtube_id">>

(* ------------------------- runDownload, by turn ------------------------ *)

\* The locals of a runDownload call at its start; `out` is what its process
\* has yet to print and `stdout` all the process prints.
newRun(youtubeId, format) ==
  [pc |-> "metaText", youtubeId |-> youtubeId, format |-> format,
   filename |-> Filename(youtubeId, format), metaText |-> "",
   title |-> "Unknown", artist |-> "Unknown", stdout |-> <<>>, out |-> <<>>,
   buffer |-> <<>>, exitCode |-> 0, result |-> Null]

\* The call has returned: its locals are gone.
returned == [newRun("", "") EXCEPT !.pc = "done", !.filename = <<>>]

\* Mutant: the run starts in a later turn; the task is left as created.
runStart_deferred(task, spawnOk) == task

\* Mutant: status is set to downloading only once the probe was spawned.
runStart_lateStatus(task, spawnOk) ==
  IF spawnOk THEN setStatus(task, "downloading") ELSE catchBlock(task, spawnError)

\* Lines 40-49: up to the first await.  Bun.spawn either starts the probe or throws.
runStart(task, spawnOk) ==
  LET t1 == setStatus(task, "downloading")
  IN IF spawnOk THEN t1 ELSE catchBlock(t1, spawnError)

\* Mutant: the task is created before the URL is validated and the catalog
\* looked up, so a rejected request leaves a task behind.
postDownload_createsFirst(url, fmt, spawnOk) ==
  LET youtubeId == extractYoutubeId(url)
      existing == findByYoutubeId(tracks, Val(youtubeId))
      format == IF fmt # Null THEN Val(fmt) ELSE defaultFormat
      task == createTask(tasks, url)
  IN /\ Len(tasks) < MaxTasks
     /\ IF youtubeId = Null
        THEN /\ response' = [op |-> "postDownload", url |-> url, code |-> 400,
                             error |-> "Invalid YouTube URL"]
             /\ tasks' = Append(tasks, task)
             /\ run' = Append(run, returned)
        ELSE IF existing # Null
        THEN /\ response' = [op |-> "postDownload", url |-> url, code |-> 409,
                             error |-> "Track already exists",
                             track_id |-> Val(existing).id]
             /\ tasks' = Append(tasks, task)
             /\ run' = Append(run, returned)
        ELSE /\ tasks' = Append(tasks, runStart(task, spawnOk))
             /\ run' = Append(run, IF spawnOk THEN newRun(Val(youtubeId), format)
                                               ELSE returned)
             /\ response' = [op |-> "postDownload", url |-> url, code |-> 202,
                             task_id |-> task.id]
     /\ UNCHANGED <<tracks, nextTrackId, lyrics, files, deleted, uploads>>

\* Mutant: the handler awaits the run (here one whose tool fails) before it
\* answers.
postDownload_awaitsRun(url, fmt, spawnOk) ==
  LET youtubeId == extractYoutubeId(url)
      existing == findByYoutubeId(tracks, Val(youtubeId))
      task == createTask(tasks, url)
  IN IF youtubeId = Null
     THEN /\ response' = [op |-> "postDownload", url |-> url, code |-> 400,
                          error |-> "Invalid YouTube URL"]
          /\ UNCHANGED <<tasks, run, tracks, nextTrackId, lyrics, files, deleted, uploads>>
     ELSE IF existing # Null
     THEN /\ response' = [op |-> "postDownload", url |-> url, code |-> 409,
                          error |-> "Track already exists", track_id |-> Val(existing).id]
          /\ UNCHANGED <<tasks, run, tracks, nextTrackId, lyrics, files, deleted, uploads>>
     ELSE /\ Len(tasks) < MaxTasks
          /\ tasks' = Append(tasks, catchBlock(setStatus(task, "downloading"),
                                               exitError(1, "ERROR: Video unavailable")))
          /\ run' = Append(run, returned)
          /\ response' = [op |-> "postDownload", url |-> url, code |-> 202,
                          task_id |-> task.id]
          /\ UNCHANGED <<tracks, nextTrackId, lyrics, files, deleted, uploads>>

\* POST /download
\* Mutant: a task for the same url in the registry also causes the rejection.
postDownload_rejectsInFlight(url, fmt, spawnOk) ==
  LET youtubeId == extractYoutubeId(url)
      existing == findByYoutubeId(tracks, Val(youtubeId))
      format == IF fmt # Null THEN Val(fmt) ELSE defaultFormat
      task == createTask(tasks, url)
  IN IF youtubeId = Null
     THEN /\ response' = [op |-> "postDownload", url |-> url, code |-> 400,
                          error |-> "Invalid YouTube URL"]
          /\ UNCHANGED <<tasks, run, tracks, nextTrackId, lyrics, files, deleted, uploads>>
     ELSE IF existing # Null \/ \E t \in DOMAIN tasks : tasks[t].url = url
     THEN /\ response' = [op |-> "postDownload", url |-> url, code |-> 409,
                          error |-> "Track already exists", track_id |-> 0]
          /\ UNCHANGED <<tasks, run, tracks, nextTrackId, lyrics, files, deleted, uploads>>
     ELSE /\ Len(tasks) < MaxTasks
          /\ tasks' = Append(tasks, runStart(task, spawnOk))
          /\ run' = Append(run, IF spawnOk THEN newRun(Val(youtubeId), format) ELSE returned)
          /\ response' = [op |-> "postDownload", url |-> url, code |-> 202,
                          task_id |-> task.id]
          /\ UNCHANGED <<tracks, nextTrackId, lyrics, files, deleted, uploads>>

postDownload(url, fmt, spawnOk) ==
  LET youtubeId == extractYoutubeId(url)
      existing == findByYoutubeId(tracks, Val(youtubeId))
      format == IF fmt # Null THEN Val(fmt) ELSE defaultFormat
      task == createTask(tasks, url)
  IN IF youtubeId = Null
     THEN /\ response' = [op |-> "postDownload", url |-> url, code |-> 400,
                          error |-> "Invalid YouTube URL"]
          /\ UNCHANGED <<tasks, run, tracks, nextTrackId, lyrics, files, deleted, uploads>>
     ELSE IF existing # Null
     THEN /\ response' = [op |-> "postDownload", url |-> url, code |-> 409,
                          error |-> "Track already exists", track_id |-> Val(existing).id]
          /\ UNCHANGED <<tasks, run, tracks, nextTrackId, lyrics, files, deleted, uploads>>
     ELSE /\ Len(tasks) < MaxTasks
          /\ tasks' = Append(tasks, runStart(task, spawnOk))
          /\ run' = Append(run, IF spawnOk THEN newRun(Val(youtubeId), format) ELSE returned)
          /\ response' = [op |-> "postDownload", url |-> url, code |-> 202,
                          task_id |-> task.id]
          /\ UNCHANGED <<tracks, nextTrackId, lyrics, files, deleted, uploads>>

\* Line 49 resolves: the probe's stdout has been read to its end.
MetaText(t, text) ==
  /\ run[t].pc = "metaText"
  /\ run' = [run EXCEPT ![t].metaText = text, ![t].pc = "metaExited"]
  /\ response' = NoResponse
  /\ UNCHANGED <<tasks, tracks, nextTrackId, lyrics, files, deleted, uploads>>

\* Lines 50-73: the probe has exited (its exit code is not looked at); parse
\* (metaText is not read again afterwards), spawn the extract+transcode
\* process (or fail to), first reader.read().
MetaExited(t, metaCode, spawnOk, output) ==
  /\ run[t].pc = "metaExited"
  /\ metaCode \in ExitCodes
  /\ LET meta == ParseMeta(run[t].metaText)
     IN IF spawnOk
        THEN /\ run' = [run EXCEPT ![t].title = meta.title, ![t].artist = meta.artist,
                                   ![t].metaText = "",
                                   ![t].stdout = output, ![t].out = output,
                                   ![t].pc = "read"]
             /\ UNCHANGED tasks
        ELSE /\ run' = [run EXCEPT ![t] = returned]
             /\ tasks' = [tasks EXCEPT ![t] = catchBlock(@, spawnError)]
  /\ response' = NoResponse
  /\ UNCHANGED <<tracks, nextTrackId, lyrics, files, deleted, uploads>>

\* Mutant: each chunk is split and parsed on its own; nothing is kept for
\* the next one.
ReadChunk_noBuffer(t, k) ==
  /\ run[t].pc = "read"
  /\ k \in 1..Len(run[t].out)
  /\ \E value \in {SubSeq(run[t].out, 1, k)} :
       \E lines \in {split(value)} :
         /\ run' = [run EXCEPT ![t].out = SubSeq(@, k + 1, Len(@)),
                               ![t].buffer = <<>>]
         /\ tasks' = [tasks EXCEPT ![t].progress = applyLines(@, lines)]
  /\ response' = NoResponse
  /\ UNCHANGED <<tracks, nextTrackId, lyrics, files, deleted, uploads>>

\* Lines 73-81: reader.read() resolves with the next k tokens of the output.
ReadChunk(t, k) ==
  /\ run[t].pc = "read"
  /\ k \in 1..Len(run[t].out)
  /\ \E value \in {SubSeq(run[t].out, 1, k)} :
       \E lines \in {split(run[t].buffer \o value)} :
         /\ run' = [run EXCEPT ![t].out = SubSeq(@, k + 1, Len(@)),
                               ![t].buffer = lines[Len(lines)]]
         /\ tasks' = [tasks EXCEPT ![t].progress =
                        applyLines(@, SubSeq(lines, 1, Len(lines) - 1))]
  /\ response' = NoResponse
  /\ UNCHANGED <<tracks, nextTrackId, lyrics, files, deleted, uploads>>

\* Lines 73-74, 84: reader.read() resolves with done; await proc.exited.
ReadDone(t) ==
  /\ run[t].pc = "read"
  /\ run[t].out = <<>>
  /\ run' = [run EXCEPT ![t].pc = "exited"]
  /\ response' = NoResponse
  /\ UNCHANGED <<tasks, tracks, nextTrackId, lyrics, files, deleted, uploads>>

\* Mutant: the exit code is looked at only after the INSERT.
ExitedFail_insertsFirst(t, code) ==
  /\ run[t].pc = "exited"
  /\ code # 0
  /\ run' = [run EXCEPT ![t].exitCode = code, ![t].pc = "stderr"]
  /\ IF uniqueYoutubeId(tracks, Some(run[t].youtubeId))
     THEN /\ tracks' = tracks \cup
                 {newTrack(nextTrackId, run[t].title, run[t].artist, tasks[t].url,
                           Some(run[t].youtubeId), run[t].filename, run[t].format)}
          /\ nextTrackId' = nextTrackId + 1
     ELSE UNCHANGED <<tracks, nextTrackId>>
  /\ response' = NoResponse
  /\ UNCHANGED <<tasks, lyrics, files, deleted, uploads>>

\* Lines 84-86: the process exited with a non-zero code; await its stderr.
ExitedFail(t, code) ==
  /\ run[t].pc = "exited"
  /\ code # 0
  /\ run' = [run EXCEPT ![t].exitCode = code, ![t].pc = "stderr"]
  /\ response' = NoResponse
  /\ UNCHANGED <<tasks, tracks, nextTrackId, lyrics, files, deleted, uploads>>

\* Mutant: the catch block fails every task that has not ended yet.
StderrText_failsOthers(t, stderr) ==
  /\ run[t].pc = "stderr"
  /\ tasks' = [u \in DOMAIN tasks |->
                 IF u = t \/ tasks[u].status \notin {"completed", "failed"}
                 THEN catchBlock(tasks[u], exitError(run[t].exitCode, stderr))
                 ELSE tasks[u]]
  /\ run' = [run EXCEPT ![t] = returned]
  /\ response' = NoResponse
  /\ UNCHANGED <<tracks, nextTrackId, lyrics, files, deleted, uploads>>

\* Lines 86-87, 120-123: stderr has been read; throw, catch.
StderrText(t, stderr) ==
  /\ run[t].pc = "stderr"
  /\ tasks' = [tasks EXCEPT ![t] = catchBlock(@, exitError(run[t].exitCode, stderr))]
  /\ run' = [run EXCEPT ![t] = returned]
  /\ response' = NoResponse
  /\ UNCHANGED <<tracks, nextTrackId, lyrics, files, deleted, uploads>>

\* Mutant: the INSERT is outside the try, so its error leaves the run.
ExitedOk_noCatch(t) ==
  /\ run[t].pc = "exited"
  /\ files' = writeFile(files, run[t].filename, toolFile)
  /\ LET t1 == setStatus(tasks[t], "processing")
         row == newTrack(nextTrackId, run[t].title, run[t].artist, tasks[t].url,
                         Some(run[t].youtubeId), run[t].filename, run[t].format)
     IN IF uniqueYoutubeId(tracks, row.youtube_id)
        THEN /\ tracks' = tracks \cup {row}
             /\ nextTrackId' = nextTrackId + 1
             /\ tasks' = [tasks EXCEPT ![t] = [t1 EXCEPT !.trackId = Some(row.id)]]
             /\ run' = [run EXCEPT ![t].exitCode = 0, ![t].result = Some(row.id),
                                   ![t].pc = "lyrics"]
        ELSE /\ tasks' = [tasks EXCEPT ![t] = t1]
             /\ run' = [run EXCEPT ![t] = returned]
             /\ UNCHANGED <<tracks, nextTrackId>>
  /\ response' = NoResponse
  /\ UNCHANGED <<lyrics, deleted, uploads>>

\* Lines 84-107: the process exited with code 0 (its output file written);
\* processing, the INSERT, trackId, the call of searchLrclib.
ExitedOk(t) ==
  /\ run[t].pc = "exited"
  /\ files' = writeFile(files, run[t].filename, toolFile)
  /\ LET t1 == setStatus(tasks[t], "processing")
         row == newTrack(nextTrackId, run[t].title, run[t].artist, tasks[t].url,
                         Some(run[t].youtubeId), run[t].filename, run[t].format)
     IN IF uniqueYoutubeId(tracks, row.youtube_id)
        THEN /\ tracks' = tracks \cup {row}
             /\ nextTrackId' = nextTrackId + 1
             /\ tasks' = [tasks EXCEPT ![t] = [t1 EXCEPT !.trackId = Some(row.id)]]
             /\ run' = [run EXCEPT ![t].exitCode = 0, ![t].result = Some(row.id),
                                   ![t].pc = "lyrics"]
        ELSE /\ tasks' = [tasks EXCEPT ![t] = catchBlock(t1, uniqueError)]
             /\ run' = [run EXCEPT ![t] = returned]
             /\ UNCHANGED <<tracks, nextTrackId>>
  /\ response' = NoResponse
  /\ UNCHANGED <<lyrics, deleted, uploads>>

\* Mutant: the lyrics INSERT is not inside a try of its own, so its error
\* reaches the catch block.
LyricsDone_noInnerTry(t, lyricsResult) ==
  /\ run[t].pc = "lyrics"
  /\ IF lyricsResult # Null /\ ~lyricsInsertable(tracks, lyrics, Val(run[t].result))
     THEN /\ tasks' = [tasks EXCEPT ![t] = catchBlock(@, <<"constraint failed">>)]
          /\ UNCHANGED lyrics
     ELSE /\ tasks' = [tasks EXCEPT ![t] = complete(@)]
          /\ IF lyricsResult # Null
             THEN lyrics' = lyrics \cup {[track_id |-> Val(run[t].result),
                                          content |-> Val(lyricsResult).content,
                                          is_synced |-> 0]}
             ELSE UNCHANGED lyrics
  /\ run' = [run EXCEPT ![t] = returned]
  /\ response' = NoResponse
  /\ UNCHANGED <<tracks, nextTrackId, files, deleted, uploads>>

\* Mutant: the lyrics found replace the row the track already has.
LyricsDone_replaces(t, lyricsResult) ==
  /\ run[t].pc = "lyrics"
  /\ IF lyricsResult # Null /\ findById(tracks, Val(run[t].result)) # Null
     THEN lyrics' = {l \in lyrics : l.track_id # Val(run[t].result)} \cup
                      {[track_id |-> Val(run[t].result),
                        content |-> Val(lyricsResult).content,
                        is_synced |-> IF Val(lyricsResult).isSynced THEN 1 ELSE 0]}
     ELSE UNCHANGED lyrics
  /\ tasks' = [tasks EXCEPT ![t] = complete(@)]
  /\ run' = [run EXCEPT ![t] = returned]
  /\ response' = NoResponse
  /\ UNCHANGED <<tracks, nextTrackId, files, deleted, uploads>>

\* Lines 107-119: searchLrclib resolved; the lyrics INSERT (its errors are
\* swallowed), completed, progress 100.
LyricsDone(t, lyricsResult) ==
  /\ run[t].pc = "lyrics"
  /\ IF lyricsResult # Null /\ lyricsInsertable(tracks, lyrics, Val(run[t].result))
     THEN lyrics' = lyrics \cup {[track_id |-> Val(run[t].result),
                                  content |-> Val(lyricsResult).content,
                                  is_synced |-> IF Val(lyricsResult).isSynced THEN 1 ELSE 0]}
     ELSE UNCHANGED lyrics
  /\ tasks' = [tasks EXCEPT ![t] = complete(@)]
  /\ run' = [run EXCEPT ![t] = returned]
  /\ response' = NoResponse
  /\ UNCHANGED <<tracks, nextTrackId, files, deleted, uploads>>

(* --------------------------- other handlers ---------------------------- *)

\* What GET /download/{taskId}/status answers in the current state.
statusResponse(taskId) ==
  IF taskId \in DOMAIN tasks
  THEN [op |-> "getStatus", taskId |-> taskId, code |-> 200,
        body |-> statusBody(tasks[taskId])]
  ELSE [op |-> "getStatus", taskId |-> taskId, code |-> 404, error |-> "Task not found"]

\* Mutant: the handler answers for a task only once its run has returned.
getStatus_awaitsRun(taskId) ==
  /\ taskId \in DOMAIN tasks => run[taskId].pc = "done"
  /\ response' = statusResponse(taskId)
  /\ UNCHANGED <<tasks, run, tracks, nextTrackId, lyrics, files, deleted, uploads>>

\* GET /download/{taskId}/status
getStatus(taskId) ==
  /\ response' = statusResponse(taskId)
  /\ UNCHANGED <<tasks, run, tracks, nextTrackId, lyrics, files, deleted, uploads>>

\* Mutant: deleting a row also evicts the newest task when it points at it.
deleteTrack_evicts(id) ==
  LET track == findById(tracks, id)
  IN IF track = Null
     THEN /\ response' = [op |-> "deleteTrack", id |-> id, code |-> 404,
                          error |-> "Track not found"]
          /\ UNCHANGED <<tasks, run, tracks, nextTrackId, lyrics, files, deleted, uploads>>
     ELSE /\ files' = unlinkSync(files, Val(track).filename)
          /\ tracks' = tracks \ {Val(track)}
          /\ lyrics' = {l \in lyrics : l.track_id # id}
          /\ deleted' = deleted \cup {id}
          /\ response' = [op |-> "deleteTrack", id |-> id, code |-> 204]
          /\ IF tasks # <<>> /\ tasks[Len(tasks)].trackId = Some(id)
             THEN /\ tasks' = SubSeq(tasks, 1, Len(tasks) - 1)
                  /\ run' = SubSeq(run, 1, Len(run) - 1)
             ELSE UNCHANGED <<tasks, run>>
          /\ UNCHANGED <<nextTrackId, uploads>>

\* Mutant: deleting a row also clears the trackId of the tasks that name it.
deleteTrack_clearsTrackId(id) ==
  LET track == findById(tracks, id)
  IN IF track = Null
     THEN /\ response' = [op |-> "deleteTrack", id |-> id, code |-> 404,
                          error |-> "Track not found"]
          /\ UNCHANGED <<tasks, run, tracks, nextTrackId, lyrics, files, deleted, uploads>>
     ELSE /\ files' = unlinkSync(files, Val(track).filename)
          /\ tracks' = tracks \ {Val(track)}
          /\ lyrics' = {l \in lyrics : l.track_id # id}
          /\ deleted' = deleted \cup {id}
          /\ response' = [op |-> "deleteTrack", id |-> id, code |-> 204]
          /\ tasks' = [u \in DOMAIN tasks |->
                         IF tasks[u].trackId = Some(id)
                         THEN [tasks[u] EXCEPT !.trackId = Null] ELSE tasks[u]]
          /\ UNCHANGED <<run, nextTrackId, uploads>>

\* Mutant: the lyrics table does not cascade.
deleteTrack_keepsLyrics(id) ==
  LET track == findById(tracks, id)
  IN IF track = Null
     THEN /\ response' = [op |-> "deleteTrack", id |-> id, code |-> 404,
                          error |-> "Track not found"]
          /\ UNCHANGED <<tasks, run, tracks, nextTrackId, lyrics, files, deleted, uploads>>
     ELSE /\ files' = unlinkSync(files, Val(track).filename)
          /\ tracks' = tracks \ {Val(track)}
          /\ deleted' = deleted \cup {id}
          /\ response' = [op |-> "deleteTrack", id |-> id, code |-> 204]
          /\ UNCHANGED <<tasks, run, nextTrackId, lyrics, uploads>>

\* DELETE /tracks/{id}
deleteTrack(id) ==
  LET track == findById(tracks, id)
  IN IF track = Null
     THEN /\ response' = [op |-> "deleteTrack", id |-> id, code |-> 404,
                          error |-> "Track not found"]
          /\ UNCHANGED <<tasks, run, tracks, nextTrackId, lyrics, files, deleted, uploads>>
     ELSE /\ files' = unlinkSync(files, Val(track).filename)
          /\ tracks' = tracks \ {Val(track)}
          /\ lyrics' = {l \in lyrics : l.track_id # id}
          /\ deleted' = deleted \cup {id}
          /\ response' = [op |-> "deleteTrack", id |-> id, code |-> 204]
          /\ UNCHANGED <<tasks, run, nextTrackId, uploads>>

\* What GET /tracks/{id} answers in the current state.
trackResponse(id) ==
  LET track == findById(tracks, id)
  IN IF track = Null
     THEN [op |-> "getTrack", id |-> id, code |-> 404, error |-> "Track not found"]
     ELSE [op |-> "getTrack", id |-> id, code |-> 200, body |-> Val(track)]

\* GET /tracks/{id}
getTrack(id) ==
  /\ response' = trackResponse(id)
  /\ UNCHANGED <<tasks, run, tracks, nextTrackId, lyrics, files, deleted, uploads>>

\* What a PATCH body may carry: title and artist, each optional (album, a
\* column these rows do not carry, is left out).
PatchBodies == [title : {Null, Some("Renamed")}, artist : {Null, Some("Someone")}]

\* PATCH /tracks/{id}: UPDATE tracks SET <the fields given> ... RETURNING *;
\* a body without fields answers the row as it is.
patchTrack(id, body) ==
  LET existing == findById(tracks, id)
  IN IF existing = Null
     THEN /\ response' = [op |-> "patchTrack", id |-> id, code |-> 404,
                          error |-> "Track not found"]
          /\ UNCHANGED <<tasks, run, tracks, nextTrackId, lyrics, files, deleted, uploads>>
     ELSE \E updated \in
            {[Val(existing) EXCEPT
                !.title = IF body.title # Null THEN Val(body.title) ELSE @,
                !.artist = IF body.artist # Null THEN Val(body.artist) ELSE @]} :
            /\ tracks' = (tracks \ {Val(existing)}) \cup {updated}
            /\ response' = [op |-> "patchTrack", id |-> id, code |-> 200, body |-> updated]
            /\ UNCHANGED <<tasks, run, nextTrackId, lyrics, files, deleted, uploads>>

(* ------------------------------- lyrics -------------------------------- *)

\* The tags of the form [mm:ss.xx] or [mm:ss.xxx] among the tokens of a text.
TimeTags == {"[00:12.34]", "[01:02.345]"}

\* LRC_LINE_REGEX.test(line): the line starts with such a tag.
LRC_LINE_REGEX(line) == line # <<>> /\ line[1] \in TimeTags

isSyncedLrc(text) ==
  LET lines == split(text) IN \E i \in 1..Len(lines) : LRC_LINE_REGEX(lines[i])

\* Lyrics a request may carry: plain text, a text whose second line is timed,
\* a text whose tag is not of the timed form.
Contents ==
  { <<"la la">>,
    <<"[ar:Artist]", "\n", "[00:12.34]", "la la">>,
    <<"[0:1.2]", "la la">> }

\* SELECT ... FROM lyrics WHERE track_id = ?
findLyrics(lrows, trackId) ==
  IF \E l \in lrows : l.track_id = trackId
  THEN Some(CHOOSE l \in lrows : l.track_id = trackId)
  ELSE Null

\* The row both statements of upsertLyrics write.
lyricsRow(trackId, content, synced) ==
  [track_id |-> trackId, content |-> content, is_synced |-> IF synced THEN 1 ELSE 0]

\* Mutant: the row is inserted without a look for an existing one.
upsertLyrics_insertOnly(lrows, trackId, content, synced) ==
  lrows \cup {lyricsRow(trackId, content, synced)}

\* upsertLyrics: the table after the UPDATE or the INSERT.
upsertLyrics(lrows, trackId, content, synced) ==
  IF findLyrics(lrows, trackId) # Null
  THEN {IF l.track_id = trackId THEN lyricsRow(trackId, content, synced) ELSE l : l \in lrows}
  ELSE lrows \cup {lyricsRow(trackId, content, synced)}

\* What GET /tracks/{id}/lyrics answers in the current state.
lyricsResponse(id) ==
  LET row == findLyrics(lyrics, id)
  IN IF row = Null
     THEN [op |-> "getLyrics", id |-> id, code |-> 404, error |-> "Lyrics not found"]
     ELSE [op |-> "getLyrics", id |-> id, code |-> 200, body |-> Val(row)]

\* GET /tracks/{id}/lyrics
getLyrics(id) ==
  /\ response' = lyricsResponse(id)
  /\ UNCHANGED <<tasks, run, tracks, nextTrackId, lyrics, files, deleted, uploads>>

\* PUT /tracks/{id}/lyrics: the handler has no await.
putLyrics(id, content, is_synced) ==
  IF findById(tracks, id) = Null
  THEN /\ response' = [op |-> "putLyrics", id |-> id, content |-> content, code |-> 404,
                       error |-> "Track not found"]
       /\ UNCHANGED <<tasks, run, tracks, nextTrackId, lyrics, files, deleted, uploads>>
  ELSE LET synced == IF is_synced # Null THEN Val(is_synced) ELSE isSyncedLrc(content)
       IN /\ lyrics' = upsertLyrics(lyrics, id, content, synced)
          /\ response' = [op |-> "putLyrics", id |-> id, content |-> content, code |-> 200,
                          body |-> lyricsRow(id, content, synced)]
          /\ UNCHANGED <<tasks, run, tracks, nextTrackId, files, deleted, uploads>>

\* seq without its u-th element.
removeAt(seq, u) == SubSeq(seq, 1, u - 1) \o SubSeq(seq, u + 1, Len(seq))

\* POST /tracks/{id}/lyrics/upload, lines 164-170: up to await c.req.formData().
uploadLrc(id) ==
  IF findById(tracks, id) = Null
  THEN /\ response' = [op |-> "uploadLrc", id |-> id, code |-> 404,
                       error |-> "Track not found"]
       /\ UNCHANGED <<tasks, run, tracks, nextTrackId, lyrics, files, deleted, uploads>>
  ELSE /\ Len(uploads) < MaxUploads
       /\ uploads' = Append(uploads, [id |-> id, pc |-> "formData", content |-> <<>>])
       /\ response' = NoResponse
       /\ UNCHANGED <<tasks, run, tracks, nextTrackId, lyrics, files, deleted>>

\* Lines 170-176: the form data has arrived, with or without a file; up to
\* await file.text().
uploadFormData(u, file) ==
  /\ u \in DOMAIN uploads
  /\ uploads[u].pc = "formData"
  /\ IF file = Null
     THEN /\ uploads' = removeAt(uploads, u)
          /\ response' = [op |-> "uploadLrc", id |-> uploads[u].id, code |-> 400,
                          error |-> "No file provided"]
     ELSE /\ uploads' = [uploads EXCEPT ![u].pc = "text", ![u].content = Val(file)]
          /\ response' = NoResponse
  /\ UNCHANGED <<tasks, run, tracks, nextTrackId, lyrics, files, deleted>>

\* Lines 176-179: the file's text has been read; upsert.  The INSERT of a row
\* for a track deleted in the meantime violates the foreign key: the
\* statement throws and the framework answers 500.
uploadText(u) ==
  /\ u \in DOMAIN uploads
  /\ uploads[u].pc = "text"
  /\ LET id == uploads[u].id
         content == uploads[u].content
         synced == isSyncedLrc(content)
     IN IF findLyrics(lyrics, id) = Null /\ findById(tracks, id) = Null
        THEN /\ response' = [op |-> "uploadLrc", id |-> id, content |-> content,
                             code |-> 500]
             /\ UNCHANGED lyrics
        ELSE /\ lyrics' = upsertLyrics(lyrics, id, content, synced)
             /\ response' = [op |-> "uploadLrc", id |-> id, content |-> content,
                             code |-> 200, body |-> lyricsRow(id, content, synced)]
  /\ uploads' = removeAt(uploads, u)
  /\ UNCHANGED <<tasks, run, tracks, nextTrackId, files, deleted>>

\* DELETE /tracks/{id}/lyrics
deleteLyrics(id) ==
  IF findLyrics(lyrics, id) = Null
  THEN /\ response' = [op |-> "deleteLyrics", id |-> id, code |-> 404,
                       error |-> "Lyrics not found"]
       /\ UNCHANGED <<tasks, run, tracks, nextTrackId, lyrics, files, deleted, uploads>>
  ELSE /\ lyrics' = {l \in lyrics : l.track_id # id}
       /\ response' = [op |-> "deleteLyrics", id |-> id, code |-> 204]
       /\ UNCHANGED <<tasks, run, tracks, nextTrackId, files, deleted, uploads>>

(* --------------------- streaming and download -------------------------- *)

MaxFileSize == 4

\* Does /bytes=(\d+)-(\d*)/ match h at position i?
matchAt(h, i) ==
  /\ h[i] = "bytes="
  /\ LET j == digitRunEnd(h, i + 1)
     IN j >= i + 1 /\ j + 1 <= Len(h) /\ h[j + 1] = "-"

\* range.match(/bytes=(\d+)-(\d*)/): the leftmost match anywhere in the
\* header, its two groups; Null when there is none.
rangeMatch(h) ==
  IF \E i \in 1..Len(h) : matchAt(h, i)
  THEN LET i == CHOOSE i \in 1..Len(h) :
                  matchAt(h, i) /\ \A i2 \in 1..(i - 1) : ~matchAt(h, i2)
           j == digitRunEnd(h, i + 1)
           k == digitRunEnd(h, j + 2)
       IN Some(<<SubSeq(h, i + 1, j), SubSeq(h, j + 2, k)>>)
  ELSE Null

\* Bun.file(path): the file's bytes; a missing file has size 0.
BunFile(fs, name) == IF name \in DOMAIN fs THEN fs[name] ELSE <<>>

\* Blob.slice(start, end) with start, end >= 0: both are clamped to the size.
slice(file, start, end) ==
  LET a == IF start > Len(file) THEN Len(file) ELSE start
      b == IF end > Len(file) THEN Len(file) ELSE end
  IN SubSeq(file, a + 1, b)

\* file.type || "audio/ogg" for the formats of FormatInputs.
contentType(file) == "audio/ogg"

\* Mutant: the slice stops before end.
partialResponse_exclusiveEnd(file, start, end) ==
  [code |-> 206,
   headers |-> ("Content-Range" :> (<<"bytes ">> \o String(start) \o <<"-">> \o String(end)
                                     \o <<"/">> \o String(Len(file))))
               @@ ("Accept-Ranges" :> <<"bytes">>)
               @@ ("Content-Length" :> String(end - start + 1))
               @@ ("Content-Type" :> <<contentType(file)>>),
   body |-> slice(file, start, end)]

\* Lines 227-238: the 206 response.
partialResponse(file, start, end) ==
  [code |-> 206,
   headers |-> ("Content-Range" :> (<<"bytes ">> \o String(start) \o <<"-">> \o String(end)
                                     \o <<"/">> \o String(Len(file))))
               @@ ("Accept-Ranges" :> <<"bytes">>)
               @@ ("Content-Length" :> String(end - start + 1))
               @@ ("Content-Type" :> <<contentType(file)>>),
   body |-> slice(file, start, end + 1)]

\* Mutant: the full-body response does not say how long it is.
fullResponse_noLength(file) ==
  [code |-> 200,
   headers |-> ("Accept-Ranges" :> <<"bytes">>)
               @@ ("Content-Type" :> <<contentType(file)>>),
   body |-> file]

\* Lines 241-247: the full-body response (status defaults to 200).
fullResponse(file) ==
  [code |-> 200,
   headers |-> ("Accept-Ranges" :> <<"bytes">>)
               @@ ("Content-Length" :> String(Len(file)))
               @@ ("Content-Type" :> <<contentType(file)>>),
   body |-> file]

\* Mutant: the download response is not marked as an attachment.
attachmentResponse_inline(track, file) ==
  [code |-> 200,
   headers |-> ("Content-Type" :> <<contentType(file)>>),
   body |-> file]

\* Lines 255-261: the download-mode response.
attachmentResponse(track, file) ==
  [code |-> 200,
   headers |-> ("Content-Disposition" :> (<<"attachment; filename=\"">> \o track.filename
                                           \o <<"\"">>))
               @@ ("Content-Type" :> <<contentType(file)>>),
   body |-> file]

\* GET /tracks/{id}/stream with the Range header `range` (Null: none).
streamTrack(id, range) ==
  LET track == findById(tracks, id)
  IN /\ IF track = Null
        THEN response' = [op |-> "streamTrack", id |-> id, range |-> range, code |-> 404,
                          error |-> "Track not found"]
        ELSE LET file == BunFile(files, Val(track).filename)
                 fileSize == Len(file)
                 match == IF range # Null /\ Val(range) # <<>>
                          THEN rangeMatch(Val(range)) ELSE Null
                 r == IF match # Null
                      THEN LET start == parseInt(Val(match)[1])
                               end == IF Val(match)[2] # <<>>
                                      THEN parseInt(Val(match)[2]) ELSE fileSize - 1
                           IN partialResponse(file, start, end)
                      ELSE fullResponse(file)
             IN response' = [op |-> "streamTrack", id |-> id, range |-> range,
                             code |-> r.code, headers |-> r.headers, body |-> r.body]
     /\ UNCHANGED <<tasks, run, tracks, nextTrackId, lyrics, files, deleted, uploads>>

\* GET /tracks/{id}/file; the handler does not read the Range header.
downloadFile(id, range) ==
  LET track == findById(tracks, id)
  IN /\ IF track = Null
        THEN response' = [op |-> "downloadFile", id |-> id, range |-> range, code |-> 404,
                          error |-> "Track not found"]
        ELSE LET r == attachmentResponse(Val(track), BunFile(files, Val(track).filename))
             IN response' = [op |-> "downloadFile", id |-> id, range |-> range,
                             code |-> r.code, headers |-> r.headers, body |-> r.body]
     /\ UNCHANGED <<tasks, run, tracks, nextTrackId, lyrics, files, deleted, uploads>>

\* Range headers of one well-formed range: bytes=<start>-<end>, bytes=<start>-.
closedRange(start, end) == <<"bytes=">> \o String(start) \o <<"-">> \o String(end)
openRange(start) == <<"bytes=">> \o String(start) \o <<"-">>
RangeNumbers == 0..(MaxFileSize + 1)
SingleRanges ==
  {closedRange(st, en) : st \in RangeNumbers, en \in RangeNumbers}
    \cup {openRange(st) : st \in RangeNumbers}

\* Other Range headers: a multi-range list, a suffix range, non-numeric
\* values, another unit, a range with text around it, no dash, the empty string.
multiRange == <<"bytes=", "0", "-", "1", ",", "5", "-", "6">>
suffixRange == <<"bytes=", "-", "5">>
nonNumericRange == <<"bytes=", "a", "-", "b">>
otherUnitRange == <<"items=", "0", "-", "1">>
OtherRanges ==
  {multiRange, suffixRange, nonNumericRange, otherUnitRange,
   <<"x", "bytes=", "0", "-", "1">>, <<"bytes=", "0">>, <<>>}

RangeInputs == {Null} \cup {Some(h) : h \in SingleRanges \cup OtherRanges}

\* A catalog of one downloaded track whose file has some size.
StreamInit ==
  \E n \in 0..MaxFileSize :
    LET filename == Filename("dQw4w9WgXcQ", defaultFormat)
    IN /\ tasks = <<>>
       /\ run = <<>>
       /\ tracks = {newTrack(1, "Song", "Uploader", watchA, Some("dQw4w9WgXcQ"),
                             filename, defaultFormat)}
       /\ nextTrackId = 2
       /\ lyrics = {}
       /\ files = writeFile(NoFiles, filename, Bytes(n))
       /\ deleted = {}
       /\ uploads = <<>>
       /\ response = NoResponse

StreamNext ==
  \/ \E id \in 1..2, range \in RangeInputs : streamTrack(id, range)
  \/ \E id \in 1..2, range \in RangeInputs : downloadFile(id, range)

SpecStream == StreamInit /\ [][StreamNext]_vars

(* ----------------------- parseProgress alone --------------------------- *)

\* Texts a line may carry where the percentage is expected: every text of
\* up to FractionDigits + 1 characters of "2", "5" and ".".
RECURSIVE TextsOfLen(_)
TextsOfLen(n) ==
  IF n = 0 THEN {<<>>}
  ELSE {<<ch>> \o t : ch \in {"2", "5", "."}, t \in TextsOfLen(n - 1)}

NumberTexts == UNION {TextsOfLen(n) : n \in 1..(FractionDigits + 1)}

\* Lines given to parseProgress: the tag, whitespace or none, a text or
\* none, a percent sign or none, with and without text around them; lines
\* with two tags; lines without the tag.
ProgressLines ==
  {pre \o <<"[download]">> \o ws \o text \o pct \o post :
     pre \in {<<>>, <<"x">>},
     ws \in {<<>>, <<" ">>, <<" ", "\t">>},
     text \in NumberTexts \cup {<<>>, <<"-", "5">>},
     pct \in {<<"%">>, <<>>},
     post \in {<<>>, <<" ", "o", "f">>}}
  \cup {<<"[download]", " ", "2", "%", " ", "[download]", " ", "5", "%">>,
        <<"[download]", " ", ".", "%", " ", "[download]", " ", "5", "%">>,
        <<"[info]", " ", "5", "%">>, <<"random text">>, <<>>}

\* A call of parseProgress is about to be made with some line.
ProgressInit ==
  /\ tasks = <<>>
  /\ run = <<>>
  /\ tracks = {}
  /\ nextTrackId = 1
  /\ lyrics = {}
  /\ files = NoFiles
  /\ deleted = {}
  /\ uploads = <<>>
  /\ \E line \in ProgressLines : response = [op |-> "call", line |-> line]

\* The call returns.
parseProgressCall ==
  /\ response.op = "call"
  /\ response' = [op |-> "parseProgress", line |-> response.line,
                  result |-> parseProgress(response.line)]
  /\ UNCHANGED <<tasks, run, tracks, nextTrackId, lyrics, files, deleted, uploads>>

ProgressNext == parseProgressCall

SpecProgress == ProgressInit /\ [][ProgressNext]_vars

(* --------------------- requests for one video -------------------------- *)

\* The catalog holds the video of watchA, downloaded earlier.
UrlInit ==
  LET filename == Filename("dQw4w9WgXcQ", defaultFormat)
  IN /\ tasks = <<>>
     /\ run = <<>>
     /\ tracks = {newTrack(1, "Song", "Uploader", watchA, Some("dQw4w9WgXcQ"),
                           filename, defaultFormat)}
     /\ nextTrackId = 2
     /\ lyrics = {}
     /\ files = writeFile(NoFiles, filename, toolFile)
     /\ deleted = {}
     /\ uploads = <<>>
     /\ response = NoResponse

\* POST /download with every form of URL; the runs it starts do not get
\* their turn here.
UrlNext ==
  \E url \in UrlForms, fmt \in FormatInputs, spawnOk \in BOOLEAN : postDownload(url, fmt, spawnOk)

SpecUrl == UrlInit /\ [][UrlNext]_vars

(* ------------------------ one run, any output -------------------------- *)

\* What the extract+transcode process may print: a lower percentage after a
\* higher one, the same percentage twice, a percentage above 100, a line
\* whose number is a lone dot, a line without a percentage, and a last line
\* that is not ended by a newline.
ReadOutputs ==
  { <<"[download] ", "50%", "\n", "[download] ", "3", "0", "%", "\n">>,
    <<"[download] ", "50%", "\n", "[download] ", "50%", "\n">>,
    <<"[download] ", "2", "5", "0", "%", "\n">>,
    <<"[download] ", ".", "%", "\n">>,
    <<"[download] ", "50%", "\n", "[info]", "\n">>,
    <<"[download] ", "3", "0", "%", "\n", "[download] ", "50%">> }

\* The longest chunk reader.read() can deliver: the longest of these outputs.
MaxReadChunk == CHOOSE n \in 0..8 : /\ \A o \in ReadOutputs : Len(o) <= n
                                    /\ \E o \in ReadOutputs : Len(o) = n

\* POST /download has just accepted the first task for watchA.
ReadInit ==
  /\ tasks = <<runStart(createTask(<<>>, watchA), TRUE)>>
  /\ run = <<newRun("dQw4w9WgXcQ", defaultFormat)>>
  /\ tracks = {}
  /\ nextTrackId = 1
  /\ lyrics = {}
  /\ files = NoFiles
  /\ deleted = {}
  /\ uploads = <<>>
  /\ response = [op |-> "postDownload", url |-> watchA, code |-> 202, task_id |-> 1]

\* The turns of that run, and status polls between them.
ReadNext ==
  \/ getStatus(1)
  \/ \E text \in MetaTexts : MetaText(1, text)
  \/ \E metaCode \in ExitCodes, spawnOk \in BOOLEAN, output \in ReadOutputs :
       MetaExited(1, metaCode, spawnOk, output)
  \/ \E k \in 1..MaxReadChunk : ReadChunk(1, k)
  \/ ReadDone(1)
  \/ \E code \in ExitCodes : ExitedFail(1, code)
  \/ ExitedOk(1)
  \/ \E stderr \in Stderrs : StderrText(1, stderr)
  \/ \E lyricsResult \in LyricsResults : LyricsDone(1, lyricsResult)

SpecRead == ReadInit /\ [][ReadNext]_vars

(* ----------------------------- the catalog ----------------------------- *)

\* One track is catalogued, with or without its audio file in the audio
\* directory and with or without the lyrics its download found.
CatalogInit ==
  \E hasFile \in BOOLEAN, lyricsResult \in LyricsResults :
    LET filename == Filename("dQw4w9WgXcQ", defaultFormat)
    IN /\ tasks = <<>>
       /\ run = <<>>
       /\ tracks = {newTrack(1, "Song", "Uploader", watchA, Some("dQw4w9WgXcQ"),
                             filename, defaultFormat)}
       /\ nextTrackId = 2
       /\ lyrics = IF lyricsResult = Null THEN {}
                   ELSE {lyricsRow(1, Val(lyricsResult).content, Val(lyricsResult).isSynced)}
       /\ files = IF hasFile THEN writeFile(NoFiles, filename, toolFile) ELSE NoFiles
       /\ deleted = {}
       /\ uploads = <<>>
       /\ response = NoResponse

\* The requests about a track and its lyrics, for the catalogued id and an
\* unknown one.
CatalogNext ==
  \/ \E id \in 1..2 : getTrack(id)
  \/ \E id \in 1..2 : deleteTrack(id)
  \/ \E id \in 1..2 : getLyrics(id)
  \/ \E id \in 1..2, content \in Contents, is_synced \in {Null, Some(TRUE), Some(FALSE)} :
       putLyrics(id, content, is_synced)
  \/ \E id \in 1..2 : uploadLrc(id)
  \/ \E u \in 1..MaxUploads, file \in {Null} \cup {Some(c) : c \in Contents} :
       uploadFormData(u, file)
  \/ \E u \in 1..MaxUploads : uploadText(u)
  \/ \E id \in 1..2 : deleteLyrics(id)

SpecCatalog == CatalogInit /\ [][CatalogNext]_vars

(* ------------------- one run and the lyrics requests ------------------- *)

\* The turns of the run of the first task, and lyrics written and read for
\* the track it inserts, at any moment.
EnrichNext ==
  \/ \E text \in MetaTexts : MetaText(1, text)
  \/ \E metaCode \in ExitCodes, spawnOk \in BOOLEAN, output \in Outputs :
       MetaExited(1, metaCode, spawnOk, output)
  \/ \E k \in 1..MaxChunk : ReadChunk(1, k)
  \/ ReadDone(1)
  \/ \E code \in ExitCodes : ExitedFail(1, code)
  \/ ExitedOk(1)
  \/ \E stderr \in Stderrs : StderrText(1, stderr)
  \/ \E lyricsResult \in LyricsResults : LyricsDone(1, lyricsResult)
  \/ \E content \in Contents, is_synced \in {Null, Some(FALSE)} : putLyrics(1, content, is_synced)
  \/ uploadLrc(1)
  \/ \E u \in 1..MaxUploads, file \in {Null} \cup {Some(c) : c \in Contents} :
       uploadFormData(u, file)
  \/ \E u \in 1..MaxUploads : uploadText(u)
  \/ getLyrics(1)

SpecEnrich == ReadInit /\ [][EnrichNext]_vars

(* ------------------------------ the covers ----------------------------- *)

\* What GET /tracks/{id}/cover answers in the current state: !track?.thumbnail
\* holds for no row, a null thumbnail and an empty one; Bun.file(...).size is
\* 0 for a file that does not exist.
coverResponse(id) ==
  LET track == findById(tracks, id)
  IN IF track = Null \/ Val(track).thumbnail = Null \/ Val(Val(track).thumbnail) = <<>>
     THEN [op |-> "getCover", id |-> id, code |-> 404, error |-> "Cover not found"]
     ELSE LET file == BunFile(files, Val(Val(track).thumbnail))
          IN IF Len(file) = 0
             THEN [op |-> "getCover", id |-> id, code |-> 404, error |-> "Cover not found"]
             ELSE [op |-> "getCover", id |-> id, code |-> 200,
                   headers |-> ("Cache-Control" :> <<"public, max-age=86400">>)
                               @@ ("Content-Type" :> <<"image/jpeg">>),
                   body |-> file]

\* GET /tracks/{id}/cover
getCover(id) ==
  /\ response' = coverResponse(id)
  /\ UNCHANGED <<tasks, run, tracks, nextTrackId, lyrics, files, deleted, uploads>>

\* The name a thumbnail written into the table outside the API may have.
coverName == <<"9bZkp7q19f0", ".", "jpg">>

\* A row for video B is in the table, written outside the API: its thumbnail
\* is null, empty or a file name, and that file is absent, empty or one byte
\* long. POST /download has just accepted the first task, for watchA.
CoverInit ==
  \E thumbnail \in {Null, Some(<<>>), Some(coverName)}, size \in {Null, Some(0), Some(1)} :
    /\ tasks = <<runStart(createTask(<<>>, watchA), TRUE)>>
    /\ run = <<newRun("dQw4w9WgXcQ", defaultFormat)>>
    /\ tracks = {[newTrack(1, "Song", "Uploader", watchB, Some("9bZkp7q19f0"),
                           Filename("9bZkp7q19f0", defaultFormat), defaultFormat)
                    EXCEPT !.thumbnail = thumbnail]}
    /\ nextTrackId = 2
    /\ lyrics = {}
    /\ files = IF size = Null THEN NoFiles ELSE writeFile(NoFiles, coverName, Bytes(Val(size)))
    /\ deleted = {}
    /\ uploads = <<>>
    /\ response = [op |-> "postDownload", url |-> watchA, code |-> 202, task_id |-> 1]

\* The turns of the run, and the requests that write a track or read a cover.
CoverNext ==
  \/ \E text \in MetaTexts : MetaText(1, text)
  \/ \E metaCode \in ExitCodes, spawnOk \in BOOLEAN, output \in Outputs :
       MetaExited(1, metaCode, spawnOk, output)
  \/ \E k \in 1..MaxChunk : ReadChunk(1, k)
  \/ ReadDone(1)
  \/ \E code \in ExitCodes : ExitedFail(1, code)
  \/ ExitedOk(1)
  \/ \E stderr \in Stderrs : StderrText(1, stderr)
  \/ \E lyricsResult \in LyricsResults : LyricsDone(1, lyricsResult)
  \/ \E id \in 1..3, body \in PatchBodies : patchTrack(id, body)
  \/ \E id \in 1..2, content \in Contents : putLyrics(id, content, Null)
  \/ \E id \in 1..2 : deleteLyrics(id)
  \/ \E id \in 1..3 : getCover(id)

SpecCover == CoverInit /\ [][CoverNext]_vars

(* --------------------------- specification ----------------------------- *)

Next ==
  \/ \E url \in Urls, fmt \in FormatInputs, spawnOk \in BOOLEAN : postDownload(url, fmt, spawnOk)
  \/ \E taskId \in 0..MaxTasks : getStatus(taskId)
  \/ \E id \in 1..MaxTasks : deleteTrack(id)
  \/ \E t \in DOMAIN tasks, text \in MetaTexts : MetaText(t, text)
  \/ \E t \in DOMAIN tasks, metaCode \in ExitCodes, spawnOk \in BOOLEAN, output \in Outputs :
       MetaExited(t, metaCode, spawnOk, output)
  \/ \E t \in DOMAIN tasks, k \in 1..MaxChunk : ReadChunk(t, k)
  \/ \E t \in DOMAIN tasks : ReadDone(t)
  \/ \E t \in DOMAIN tasks, code \in ExitCodes : ExitedFail(t, code)
  \/ \E t \in DOMAIN tasks : ExitedOk(t)
  \/ \E t \in DOMAIN tasks, stderr \in Stderrs : StderrText(t, stderr)
  \/ \E t \in DOMAIN tasks, lyricsResult \in LyricsResults : LyricsDone(t, lyricsResult)

Spec == Init /\ [][Next]_vars

\* The continuation of task t's run after the promise it awaits has settled.
RunStep(t) ==
  /\ t \in DOMAIN tasks
  /\ \/ \E text \in MetaTexts : MetaText(t, text)
     \/ \E metaCode \in ExitCodes, spawnOk \in BOOLEAN, output \in Outputs :
          MetaExited(t, metaCode, spawnOk, output)
     \/ \E k \in 1..MaxChunk : ReadChunk(t, k)
     \/ ReadDone(t)
     \/ \E code \in ExitCodes : ExitedFail(t, code)
     \/ ExitedOk(t)
     \/ \E stderr \in Stderrs : StderrText(t, stderr)
     \/ \E lyricsResult \in LyricsResults : LyricsDone(t, lyricsResult)

\* Every spawned process eventually closes its output and exits, and the
\* lyrics lookup eventually settles: each promise a run awaits settles, and
\* the event loop then runs the continuation.
FairSpec == Spec /\ \A t \in 1..MaxTasks : WF_vars(RunStep(t))

(* ------------------------------ claims --------------------------------- *)

Terminal == {"completed", "failed"}

\* The external-id a task's url yields.
ExternalId(t) == extractYoutubeId(tasks[t].url)

\* C1: a completed task has trackId set and error null; a failed task has
\* error set and trackId null.
C1_TerminalFields ==
  \A t \in DOMAIN tasks :
    /\ tasks[t].status = "completed" => tasks[t].trackId # Null /\ tasks[t].error = Null
    /\ tasks[t].status = "failed" => tasks[t].error # Null /\ tasks[t].trackId = Null

\* A completed task next to one that failed after it had reached processing.
C1_Witness ==
  \E t1, t2 \in DOMAIN tasks :
    /\ tasks[t1].status = "completed"
    /\ tasks[t2].status = "failed"
    /\ tasks[t2].history = <<"pending", "downloading", "processing", "failed">>

\* C2 as stated: every pending, downloading or processing task has trackId
\* null and error null.
C2_NonTerminalBothNull ==
  \A t \in DOMAIN tasks :
    tasks[t].status \notin Terminal => tasks[t].trackId = Null /\ tasks[t].error = Null

\* C2 amended: a pending or downloading task has trackId null and error null;
\* a processing task has error null (its trackId is set as soon as the INSERT
\* has returned, before the lyrics lookup), and a status poll reports just that.
C2_NonTerminalFields ==
  \A t \in DOMAIN tasks :
    /\ tasks[t].status \in {"pending", "downloading"}
         => tasks[t].trackId = Null /\ tasks[t].error = Null
    /\ tasks[t].status = "processing" => tasks[t].error = Null
    /\ statusResponse(t).body.status \notin Terminal
         => /\ statusResponse(t).body.error = Null
            /\ statusResponse(t).body.track_id # Null
                 => statusResponse(t).body.status = "processing"

\* A poll has answered processing together with a track_id while another
\* task is downloading.
C2_Witness ==
  /\ response.op = "getStatus"
  /\ response.code = 200
  /\ response.body.status = "processing"
  /\ response.body.track_id # Null
  /\ \E t \in DOMAIN tasks : tasks[t].status = "downloading"

\* The status changes runDownload is allowed to make.
AllowedChanges ==
  { <<"pending", "downloading">>, <<"downloading", "processing">>,
    <<"processing", "completed">>, <<"downloading", "failed">>,
    <<"processing", "failed">> }

\* s2 is s1 or comes after it along AllowedChanges.
Reaches(s1, s2) ==
  \/ s1 = s2
  \/ <<s1, s2>> \in AllowedChanges
  \/ \E m \in {"downloading", "processing"} :
       <<s1, m>> \in AllowedChanges /\ <<m, s2>> \in AllowedChanges
  \/ s1 = "pending" /\ s2 \in Terminal

\* C3: every assignment to a task's status follows pending -> downloading ->
\* processing -> completed or goes from downloading or processing to failed;
\* between two turns the status moves only along such assignments.
C3_StatusTransitions ==
  /\ [](\A t \in DOMAIN tasks :
          LET h == tasks[t].history
          IN /\ h[1] = "pending"
             /\ tasks[t].status = h[Len(h)]
             /\ \A i \in 1..(Len(h) - 1) : <<h[i], h[i + 1]>> \in AllowedChanges)
  /\ [][\A t \in DOMAIN tasks :
          /\ Reaches(tasks[t].status, tasks'[t].status)
          /\ tasks[t].status \in Terminal => tasks'[t].status = tasks[t].status
          /\ Len(tasks'[t].history) >= Len(tasks[t].history)
          /\ SubSeq(tasks'[t].history, 1, Len(tasks[t].history)) = tasks[t].history]_vars

\* One task went all the way to completed, another failed from downloading
\* (C1_Witness has the failure from processing).
C3_Witness ==
  \E t1, t2 \in DOMAIN tasks :
    /\ tasks[t1].history = <<"pending", "downloading", "processing", "completed">>
    /\ tasks[t2].history = <<"pending", "downloading", "failed">>

\* The request of the last turn carried a URL whose external-id was in the
\* catalog (evaluated on a step: the catalog before, the response after).
PostOfCatalogued ==
  /\ response'.op = "postDownload"
  /\ extractYoutubeId(response'.url) # Null
  /\ \E r \in tracks : r.youtube_id = extractYoutubeId(response'.url)

\* C4: POST /download for an external-id already in the catalog answers 409
\* with the existing row's id and changes neither registry, runs, catalog
\* nor files.
C4_ConflictRejected ==
  [][PostOfCatalogued =>
       /\ response'.code = 409
       /\ \E r \in tracks : /\ r.youtube_id = extractYoutubeId(response'.url)
                            /\ response'.track_id = r.id
       /\ UNCHANGED <<tasks, run, tracks, nextTrackId, lyrics, files>>]_vars

\* A 409 has been answered while another task is in flight.
C4_Witness ==
  /\ response.op = "postDownload"
  /\ response.code = 409
  /\ \E r \in tracks : r.id = response.track_id
  /\ \E t \in DOMAIN tasks : run[t].pc = "read"

\* C5: POST /download with a URL that yields no external-id answers 400 and
\* changes neither registry, runs, catalog nor files.
C5_InvalidRejected ==
  [][(response'.op = "postDownload" /\ response'.url = otherSite) =>
       /\ response'.code = 400
       /\ UNCHANGED <<tasks, run, tracks, nextTrackId, lyrics, files>>]_vars

\* A 400 has been answered with a task in flight and a row in the catalog.
C5_Witness ==
  /\ response.op = "postDownload"
  /\ response.code = 400
  /\ tracks # {}
  /\ \E t \in DOMAIN tasks : run[t].pc = "read"

\* C6: an accepted POST /download answers 202 with the id of a registered
\* task while the run is still at its first await (or has already failed to
\* start its tool), and a status poll is then possible and answers 200.
C6_AcceptedWithoutWaiting ==
  (response.op = "postDownload" /\ response.code = 202) =>
    LET id == response.task_id
    IN /\ id \in DOMAIN tasks
       /\ tasks[id].url = response.url
       /\ \/ /\ run[id].pc = "metaText"
             /\ tasks[id].status = "downloading"
          \/ /\ run[id].pc = "done"
             /\ tasks[id].status = "failed"
             /\ tasks[id].error = Some(spawnError)
       /\ ENABLED (getStatus(id) /\ response'.code = 200 /\ response'.body.id = id)

\* A 202 has been answered for a run that waits for its probe while an older
\* run waits for its lyrics lookup.
C6_Witness ==
  /\ response.op = "postDownload"
  /\ response.code = 202
  /\ run[response.task_id].pc = "metaText"
  /\ \E t \in DOMAIN tasks : run[t].pc = "lyrics"

\* C7: GET /download/{taskId}/status answers 404 for an id not in the
\* registry and 200 with the task's fields for an id in it, changes nothing,
\* and can be served in every state, whatever the runs are waiting for.
C7_StatusPoll ==
  /\ [](\A taskId \in 0..MaxTasks : ENABLED getStatus(taskId))
  /\ [][response'.op = "getStatus" =>
          /\ response'.taskId \notin DOMAIN tasks => response'.code = 404
          /\ response'.taskId \in DOMAIN tasks =>
               LET task == tasks[response'.taskId]
               IN /\ response'.code = 200
                  /\ response'.body = [id |-> task.id, status |-> task.status,
                                       progress |-> task.progress,
                                       track_id |-> task.trackId, error |-> task.error]
          /\ UNCHANGED <<tasks, run, tracks, nextTrackId, lyrics, files, deleted>>]_vars

\* A poll has answered 200 with progress 50 for a run that is still reading
\* its tool's output.
C7_Witness ==
  /\ response.op = "getStatus"
  /\ response.code = 200
  /\ response.body.progress = 50 * Scale
  /\ run[response.taskId].pc = "read"

\* The task failed with the message of a non-zero exit code.
ExitFailed(t) ==
  /\ tasks[t].status = "failed"
  /\ tasks[t].error # Null
  /\ Val(tasks[t].error)[1] = "yt-dlp exited with code "

\* C8: a run whose extract+transcode process exited with a non-zero code
\* fails its task with a message that carries the exit code and the captured
\* stderr; it inserts no row and its task's trackId stays null.
C8_NonZeroExitFails ==
  /\ [](\A t \in DOMAIN tasks :
          /\ run[t].pc = "stderr" =>
               /\ run[t].exitCode # 0
               /\ run[t].result = Null
               /\ tasks[t].trackId = Null
          /\ ExitFailed(t) =>
               /\ tasks[t].trackId = Null
               /\ \A i \in 1..Len(tasks[t].history) : tasks[t].history[i] # "processing"
               /\ Len(Val(tasks[t].error)) = 4
               /\ Val(tasks[t].error)[4] \in Stderrs)
  /\ [][\A t \in DOMAIN tasks :
          /\ (run[t].pc = "exited" /\ run'[t].pc = "stderr") =>
               /\ tasks'[t] = tasks[t]
               /\ UNCHANGED <<tracks, nextTrackId, lyrics>>
          /\ (run[t].pc = "stderr" /\ run'[t].pc # "stderr") =>
               /\ ExitFailed(t)'
               /\ Val(tasks'[t].error)[2] = Str(run[t].exitCode)
               /\ run'[t].pc = "done"
               /\ UNCHANGED <<tracks, nextTrackId, lyrics>>]_vars

\* A task failed on its tool's exit code while another task's run has
\* inserted its row.
C8_Witness ==
  \E t1, t2 \in DOMAIN tasks :
    /\ ExitFailed(t1)
    /\ tasks[t2].trackId # Null
    /\ tracks # {}

\* The catalog row a task's trackId names, with the task's external-id.
HasRow(t) ==
  \E r \in tracks : r.id = Val(tasks[t].trackId) /\ r.youtube_id = ExternalId(t)

\* C9 as stated: whenever a task is completed the catalog holds the row its
\* trackId names, with the external-id of its url.
C9_CompletedHasRow ==
  \A t \in DOMAIN tasks : tasks[t].status = "completed" => HasRow(t)

\* C9 amended: whenever a task is completed the catalog holds the row its
\* trackId names, with the external-id of its url, unless DELETE /tracks/{id}
\* has removed that row.
C9_CompletedHasRowUnlessDeleted ==
  \A t \in DOMAIN tasks :
    tasks[t].status = "completed" => HasRow(t) \/ Val(tasks[t].trackId) \in deleted

\* Two completed tasks: the row of one is in the catalog, the row of the
\* other has been deleted.
C9_Witness ==
  \E t1, t2 \in DOMAIN tasks :
    /\ tasks[t1].status = "completed" /\ HasRow(t1)
    /\ tasks[t2].status = "completed" /\ Val(tasks[t2].trackId) \in deleted

\* The error message is not the empty text.
NonEmptyError(t) ==
  /\ tasks[t].error # Null
  /\ \E i \in 1..Len(Val(tasks[t].error)) : Val(tasks[t].error)[i] # ""

\* C10 as stated: whenever a task failed on its tool's exit code, the catalog
\* holds no row with the task's external-id and the error is non-empty.
C10_FailedHasNoRow ==
  \A t \in DOMAIN tasks :
    ExitFailed(t) =>
      /\ NonEmptyError(t)
      /\ \A r \in tracks : r.youtube_id # ExternalId(t)

\* C10 amended: whenever a task failed on its tool's exit code, its error is
\* non-empty, its trackId is null, and every catalog row with its external-id
\* is the row another task for that external-id holds as trackId (the row
\* that task's run inserted).
C10_FailedInsertedNoRow ==
  \A t \in DOMAIN tasks :
    ExitFailed(t) =>
      /\ NonEmptyError(t)
      /\ tasks[t].trackId = Null
      /\ \A r \in tracks :
           r.youtube_id = ExternalId(t) =>
             \E t2 \in DOMAIN tasks \ {t} :
               /\ tasks[t2].trackId = Some(r.id)
               /\ ExternalId(t2) = ExternalId(t)

\* A task failed on its tool's exit code and the catalog holds a row with
\* its external-id, inserted by the other task's run.
C10_Witness ==
  \E t \in DOMAIN tasks :
    /\ ExitFailed(t)
    /\ \E r \in tracks : r.youtube_id = ExternalId(t)

\* C11: the catalog holds at most one row per external-id (and per id), also
\* when two requests for one video were both accepted before either run
\* inserted.
C11_OneRowPerExternalId ==
  \A r1, r2 \in tracks :
    (r1.id = r2.id \/ (r1.youtube_id # Null /\ r1.youtube_id = r2.youtube_id)) => r1 = r2

\* Two tasks for one video were accepted; one run inserted the row, the
\* other's INSERT was rejected.
C11_Witness ==
  \E t1, t2 \in DOMAIN tasks :
    /\ t1 # t2
    /\ ExternalId(t1) = ExternalId(t2)
    /\ tasks[t1].trackId # Null
    /\ tasks[t2].error = Some(uniqueError)
    /\ \E r \in tracks : r.youtube_id = ExternalId(t1)

\* C12: once a run's catalog INSERT has succeeded, its task ends completed
\* with the trackId of that row and error null, whatever the lyrics lookup
\* returns and whether or not the lyrics INSERT is accepted.
C12_EnrichmentNeverFails ==
  /\ [](\A t \in DOMAIN tasks :
          /\ run[t].pc = "lyrics" =>
               /\ tasks[t].status = "processing"
               /\ tasks[t].trackId # Null
               /\ tasks[t].trackId = run[t].result
               /\ tasks[t].error = Null
          /\ tasks[t].trackId # Null => tasks[t].status \in {"processing", "completed"})
  /\ [][\A t \in DOMAIN tasks :
          (run[t].pc = "lyrics" /\ run'[t].pc # "lyrics") =>
            /\ run'[t].pc = "done"
            /\ tasks'[t].status = "completed"
            /\ tasks'[t].trackId = tasks[t].trackId
            /\ tasks'[t].error = Null]_vars

\* One task completed with the lyrics found stored for its track; another
\* completed although its row was deleted (no lyrics row can be stored then).
C12_Witness ==
  \E t1, t2 \in DOMAIN tasks :
    /\ tasks[t1].status = "completed"
    /\ \E l \in lyrics : Some(l.track_id) = tasks[t1].trackId
    /\ tasks[t2].status = "completed"
    /\ Val(tasks[t2].trackId) \in deleted
    /\ \A l \in lyrics : Some(l.track_id) # tasks[t2].trackId

\* C13 as stated: no outcome of the metadata probe, its process failing to
\* start included, moves the task to failed: the task of an accepted request
\* is not failed when 202 is answered.
C13_ProbeNeverFails ==
  (response.op = "postDownload" /\ response.code = 202) =>
    tasks[response.task_id].status # "failed"

\* C13 amended: whatever a started probe prints and whatever its exit code,
\* the task is not failed while or because of it and the run goes on to spawn
\* the extract+transcode process, with title and artist "Unknown" unless the
\* probe's JSON has them; only a probe (or extract) process that cannot be
\* started fails the task, with the error Bun.spawn threw.
C13_StartedProbeNeverFails ==
  /\ [](/\ \A t \in DOMAIN tasks :
             /\ run[t].pc \in {"metaText", "metaExited"} =>
                  tasks[t].status = "downloading" /\ tasks[t].error = Null
             /\ run[t].pc = "read" => tasks[t].status = "downloading"
        /\ (response.op = "postDownload" /\ response.code = 202
              /\ tasks[response.task_id].status = "failed") =>
             tasks[response.task_id].error = Some(spawnError))
  /\ [][\A t \in DOMAIN tasks :
          /\ (run[t].pc = "metaText" /\ run'[t] # run[t]) =>
               run'[t].pc = "metaExited" /\ tasks'[t] = tasks[t]
          /\ (run[t].pc = "metaExited" /\ run'[t] # run[t]) =>
               \/ /\ run'[t].pc = "read" /\ tasks'[t] = tasks[t]
                  /\ run[t].metaText # "{title,uploader}" =>
                       run'[t].title = "Unknown" /\ run'[t].artist = "Unknown"
               \/ /\ run'[t].pc = "done"
                  /\ tasks'[t].status = "failed"
                  /\ tasks'[t].error = Some(spawnError)]_vars

\* A run reads its tool's output with title "Unknown" while the probe of
\* another run has printed JSON without the fields and is about to be parsed.
C13_Witness ==
  \E t1, t2 \in DOMAIN tasks :
    /\ run[t1].pc = "read" /\ run[t1].title = "Unknown" /\ run[t1].artist = "Unknown"
    /\ tasks[t1].status = "downloading"
    /\ run[t2].pc = "metaExited" /\ run[t2].metaText = "{}"

\* C14: under the fairness of FairSpec every task in the registry eventually
\* is completed or failed, and a run that has returned has left its task
\* completed or failed.
C14_EveryTaskEnds ==
  /\ \A t \in 1..MaxTasks :
       (t \in DOMAIN tasks) ~> (t \in DOMAIN tasks /\ tasks[t].status \in Terminal)
  /\ [](\A t \in DOMAIN tasks : run[t].pc = "done" => tasks[t].status \in Terminal)

\* The registry is full and every run has returned, one of them through the
\* catch block after the INSERT was rejected, one normally.
C14_Witness ==
  /\ Len(tasks) = MaxTasks
  /\ \A t \in DOMAIN tasks : run[t].pc = "done" /\ tasks[t].status \in Terminal
  /\ \E t \in DOMAIN tasks : tasks[t].error = Some(uniqueError)
  /\ \E t \in DOMAIN tasks : tasks[t].status = "completed"

\* C15: createTask returns a task with status pending, progress 0, trackId
\* null, error null and the given url under an id no entry has; the task is in
\* the registry under that id afterwards, ids are distinct, and creating a
\* task replaces no existing entry.
C15_CreateTask ==
  /\ [](/\ \A url \in Urls :
             LET task == createTask(tasks, url)
             IN /\ task.status = "pending" /\ task.progress = 0
                /\ task.trackId = Null /\ task.error = Null
                /\ task.url = url
                /\ task.id \notin DOMAIN tasks
        /\ \A t \in DOMAIN tasks : tasks[t].id = t /\ tasks[t].history[1] = "pending"
        /\ \A t1, t2 \in DOMAIN tasks : tasks[t1].id = tasks[t2].id => t1 = t2)
  /\ [][(response'.op = "postDownload" /\ response'.code = 202) =>
          LET id == response'.task_id
          IN /\ id \notin DOMAIN tasks
             /\ DOMAIN tasks' = DOMAIN tasks \cup {id}
             /\ tasks'[id].id = id
             /\ tasks'[id].url = response'.url
             /\ tasks'[id].progress = 0 /\ tasks'[id].trackId = Null
             /\ \A t \in DOMAIN tasks : tasks'[t] = tasks[t]]_vars

\* Two tasks created for one url are both in the registry, under two ids,
\* right after the second was created.
C15_Witness ==
  /\ Len(tasks) = 2
  /\ tasks[1].url = tasks[2].url
  /\ tasks[1].id # tasks[2].id
  /\ response.op = "postDownload" /\ response.code = 202 /\ response.task_id = 2

\* C16: no step removes a task from the registry or changes its id, and a
\* status lookup for a task id of the registry succeeds in every state.
C16_NeverRemoved ==
  /\ [](\A t \in DOMAIN tasks :
          statusResponse(t).code = 200 /\ statusResponse(t).body.id = t)
  /\ [][/\ Len(tasks') >= Len(tasks)
        /\ \A t \in DOMAIN tasks : tasks'[t].id = tasks[t].id]_vars

\* A failed task and a task whose catalog row was deleted are both still
\* answered: the lookup for the latter has just returned 200.
C16_Witness ==
  \E t1, t2 \in DOMAIN tasks :
    /\ tasks[t1].status = "failed"
    /\ tasks[t2].trackId # Null
    /\ Val(tasks[t2].trackId) \in deleted
    /\ response.op = "getStatus" /\ response.code = 200 /\ response.taskId = t2

\* The catalog row a stream or download response is about, and its file.
Requested == CHOOSE r \in tracks : r.id = response.id
RequestedFile == files[Requested.filename]
KnownTrack == \E r \in tracks : r.id = response.id /\ r.filename \in DOMAIN files

\* C17: GET /tracks/{id}/stream of a catalogued track without a Range header
\* answers 200 with Accept-Ranges: bytes, Content-Length equal to the file
\* size, and the whole file as body.
C17_FullBody ==
  (response.op = "streamTrack" /\ KnownTrack /\ response.range = Null) =>
    /\ response.code = 200
    /\ "Accept-Ranges" \in DOMAIN response.headers
    /\ response.headers["Accept-Ranges"] = <<"bytes">>
    /\ "Content-Length" \in DOMAIN response.headers
    /\ response.headers["Content-Length"] = String(Len(RequestedFile))
    /\ "Content-Range" \notin DOMAIN response.headers
    /\ response.body = RequestedFile

C17_Witness ==
  /\ response.op = "streamTrack" /\ response.id = 1 /\ response.range = Null
  /\ response.code = 200
  /\ Len(response.body) = MaxFileSize
  /\ response.headers["Content-Length"] = String(MaxFileSize)

\* What C18 asks of the answer to a request for the bytes at st..en.
PartialContent(st, en) ==
  /\ response.code = 206
  /\ "Content-Range" \in DOMAIN response.headers
  /\ response.headers["Content-Range"] =
       <<"bytes ">> \o String(st) \o <<"-">> \o String(en) \o <<"/">>
         \o String(Len(RequestedFile))
  /\ response.headers["Content-Length"] = String(en - st + 1)
  /\ response.body = [i \in 1..(en - st + 1) |-> RequestedFile[st + i]]

\* C18: a stream request with Range: bytes=<start>-<end>, 0 <= start <= end <
\* size, answers 206 with Content-Range: bytes <start>-<end>/<size>,
\* Content-Length end-start+1 and the bytes at offsets start..end; an omitted
\* <end> is size-1.
C18_SingleRange ==
  (response.op = "streamTrack" /\ KnownTrack) =>
    \A st \in RangeNumbers :
      /\ \A en \in RangeNumbers :
           (response.range = Some(closedRange(st, en))
              /\ st <= en /\ en < Len(RequestedFile)) => PartialContent(st, en)
      /\ (response.range = Some(openRange(st)) /\ st < Len(RequestedFile)) =>
           PartialContent(st, Len(RequestedFile) - 1)

C18_Witness ==
  /\ response.op = "streamTrack" /\ response.id = 1
  /\ response.range = Some(<<"bytes=", "1", "-", "2">>)
  /\ response.code = 206
  /\ response.body = <<1, 2>>
  /\ Len(RequestedFile) = MaxFileSize

\* C19 as stated: a Range header that is not one well-formed single range is
\* answered as if there were none, with status 200 and the full body.
C19_MalformedFallsBack ==
  (response.op = "streamTrack" /\ KnownTrack /\ response.range # Null
     /\ Val(response.range) \notin SingleRanges) =>
    /\ response.code = 200
    /\ response.body = RequestedFile

\* C20: GET /tracks/{id}/file of a catalogued track answers 200 with
\* Content-Disposition: attachment; filename="<the track's filename>" and the
\* whole file whatever the Range header, never 206; an unknown id answers 404.
C20_DownloadMode ==
  response.op = "downloadFile" =>
    IF \E r \in tracks : r.id = response.id
    THEN /\ response.code = 200
         /\ "Content-Disposition" \in DOMAIN response.headers
         /\ response.headers["Content-Disposition"] =
              <<"attachment; filename=\"">> \o Requested.filename \o <<"\"">>
         /\ "Content-Range" \notin DOMAIN response.headers
         /\ response.body = RequestedFile
    ELSE response.code = 404

C20_Witness ==
  /\ response.op = "downloadFile" /\ response.id = 1
  /\ response.range = Some(<<"bytes=", "0", "-", "1">>)
  /\ response.code = 200
  /\ Len(response.body) = MaxFileSize /\ MaxFileSize > 2

\* A non-negative decimal number as text: digits, optionally a point and
\* digits; or a point and digits.
IsDecimal(text) ==
  \E p \in 0..Len(text) :
    /\ \A i \in 1..p : isDigit(text[i])
    /\ \/ p = Len(text) /\ p >= 1
       \/ /\ p < Len(text) /\ text[p + 1] = "."
          /\ \A i \in (p + 2)..Len(text) : isDigit(text[i])
          /\ Len(text) >= 2

\* Its value, in units of 1 / Scale.
DecimalValue(text) ==
  LET p == CHOOSE p \in 0..Len(text) :
             (\A i \in 1..p : isDigit(text[i])) /\ (p = Len(text) \/ text[p + 1] = ".")
      frac == SubSeq(text, p + 2, Len(text))
  IN parseInt(SubSeq(text, 1, p)) * Scale + (parseInt(frac) * Scale) \div Pow10(Len(frac))

\* Where line c holds "[download]", whitespace, a decimal number and "%":
\* the first and last position of the number.
PatternsIn(c) ==
  {jk \in (1..Len(c)) \X (1..Len(c)) :
     /\ jk[1] <= jk[2] /\ jk[2] < Len(c) /\ c[jk[2] + 1] = "%"
     /\ IsDecimal(SubSeq(c, jk[1], jk[2]))
     /\ \E i \in 1..(jk[1] - 2) :
          c[i] = "[download]" /\ \A m \in (i + 1)..(jk[1] - 1) : c[m] \in Space}

\* C21 as stated: parseProgress returns P for a line that holds the pattern
\* "[download]", whitespace, "P%" with P a non-negative decimal number, and
\* null for every line that does not hold it.
C21_ParseProgress ==
  response.op = "parseProgress" =>
    LET c == response.line
    IN IF PatternsIn(c) # {}
       THEN \E jk \in PatternsIn(c) :
              response.result = Some(DecimalValue(SubSeq(c, jk[1], jk[2])))
       ELSE response.result = Null

\* C22 as stated: a URL of another site yields no external-id, so that a
\* request carrying one is answered 400.
C22_OtherSitesRejected ==
  (response.op = "postDownload" /\ response.url[2] = "example.com") => response.code = 400

\* C22 amended: the watch URL, the short URL and the watch URL with a
\* parameter after v= of one video yield the same external-id; a URL or text
\* that holds none of the three prefixes followed by eleven id characters
\* yields none, and only those; a request carrying any URL that yields the
\* external-id of a catalogued video is answered 409 with that row's id.
C22_ExternalId ==
  /\ \A id \in Id11 :
       /\ extractYoutubeId(<<"https://www.", "youtube.com/watch?v=", id>>) = Some(id)
       /\ extractYoutubeId(<<"https://", "youtu.be/", id>>) = Some(id)
       /\ extractYoutubeId(<<"https://www.", "youtube.com/watch?v=", id, "&list=PLtest">>)
            = Some(id)
  /\ extractYoutubeId(otherSite) = Null
  /\ extractYoutubeId(notAUrl) = Null
  /\ extractYoutubeId(watchTimeA) = Null
  /\ extractYoutubeId(otherSiteShortA) = Some("dQw4w9WgXcQ")
  /\ response.op = "postDownload" =>
       /\ response.url \in {watchA, shortA, watchListA, embedA, otherSiteShortA} =>
            /\ response.code = 409
            /\ \E r \in tracks : r.id = response.track_id /\ r.youtube_id = Some("dQw4w9WgXcQ")
       /\ response.url \in {otherSite, watchTimeA} => response.code = 400
       /\ response.url \in {watchB, shortB} => response.code = 202

\* The short URL of the catalogued video has just been rejected with 409
\* while a task for another video was accepted before.
C22_Witness ==
  /\ response.op = "postDownload" /\ response.url = shortA /\ response.code = 409
  /\ response.track_id = 1
  /\ Len(tasks) >= 1 /\ tasks[1].url = shortB

\* C23 as stated: every task's progress is a number between 0 and 100
\* inclusive, whatever the tool prints.
C23_ProgressInRange ==
  \A t \in DOMAIN tasks :
    tasks[t].progress # NaN /\ 0 <= tasks[t].progress /\ tasks[t].progress <= 100 * Scale

\* C24: a completed task has progress exactly 100, and a status poll that
\* reports completed reports progress 100.
C24_CompletedIs100 ==
  /\ \A t \in DOMAIN tasks : tasks[t].status = "completed" => tasks[t].progress = 100 * Scale
  /\ (response.op = "getStatus" /\ response.code = 200 /\ response.body.status = "completed")
       => response.body.progress = 100 * Scale

\* A poll has observed the completed task.
C24_Witness ==
  /\ response.op = "getStatus" /\ response.code = 200
  /\ response.body.status = "completed" /\ response.body.progress = 100 * Scale
  /\ tasks[1].history = <<"pending", "downloading", "processing", "completed">>

\* The lines a chunk completes: the pieces of buffer + chunk ended by a newline.
CompletedLines(buffer, value) ==
  LET pieces == split(buffer \o value) IN SubSeq(pieces, 1, Len(pieces) - 1)

\* C30: while a task is downloading, a chunk sets progress to the value of
\* the last line it completes for which the parser yields a value, be it
\* lower than or equal to the progress before, and leaves progress unchanged
\* when the parser yields a value for none of them.
C30_LastWriterWins ==
  [][\A t \in DOMAIN tasks :
       (run[t].pc = "read" /\ Len(run'[t].out) < Len(run[t].out)) =>
         LET value == SubSeq(run[t].out, 1, Len(run[t].out) - Len(run'[t].out))
             lines == CompletedLines(run[t].buffer, value)
             hits == {i \in 1..Len(lines) : parseProgress(lines[i]) # Null}
         IN /\ tasks[t].status = "downloading"
            /\ IF hits = {} THEN tasks'[t].progress = tasks[t].progress
               ELSE LET last == CHOOSE i \in hits : \A j \in hits : j <= i
                    IN tasks'[t].progress = Val(parseProgress(lines[last]))]_vars

\* The whole output has been read and the lower percentage, printed after
\* the higher one, is the progress.
C30_Witness ==
  /\ run[1].pc = "read" /\ run[1].out = <<>> /\ run[1].buffer = <<>>
  /\ tasks[1].status = "downloading" /\ tasks[1].progress = 30 * Scale

\* C25: once a task is completed or failed, no step changes its status,
\* progress, trackId or error; a trackId or an error that is set keeps its
\* value in every step.
C25_TerminalStable ==
  [][\A t \in DOMAIN tasks :
       /\ tasks[t].status \in Terminal =>
            /\ tasks'[t].status = tasks[t].status
            /\ tasks'[t].progress = tasks[t].progress
            /\ tasks'[t].trackId = tasks[t].trackId
            /\ tasks'[t].error = tasks[t].error
       /\ tasks[t].trackId # Null => tasks'[t].trackId = tasks[t].trackId
       /\ tasks[t].error # Null => tasks'[t].error = tasks[t].error]_vars

\* The row of a completed task has just been deleted, next to a failed task:
\* both still show what they ended with.
C25_Witness ==
  /\ response.op = "deleteTrack" /\ response.code = 204
  /\ \E t1, t2 \in DOMAIN tasks :
       /\ tasks[t1].status = "completed" /\ tasks[t1].trackId = Some(response.id)
       /\ tasks[t1].progress = 100 * Scale
       /\ tasks[t2].status = "failed" /\ tasks[t2].error # Null

\* The fields of a task a run writes.
Mutable(task) == <<task.status, task.progress, task.trackId, task.error>>

\* C28: a step that changes a task's status, progress, trackId or error is a
\* turn of that task's own run, which is the only run that moves and the
\* only task that changes in the step; a run that has returned is never
\* started again and there is one run per task; no step changes a task's
\* id, url or createdAt.
C28_OwnRunOnly ==
  [][/\ \A t \in DOMAIN tasks :
          \/ tasks'[t] = tasks[t] /\ (run[t].pc = "done" => run'[t] = run[t])
          \/ /\ tasks'[t].id = tasks[t].id
             /\ tasks'[t].url = tasks[t].url
             /\ tasks'[t].createdAt = tasks[t].createdAt
             /\ Mutable(tasks'[t]) # Mutable(tasks[t])
             /\ response' = NoResponse
             /\ run[t].pc # "done" /\ run'[t] # run[t]
             /\ \A u \in DOMAIN tasks \ {t} : tasks'[u] = tasks[u] /\ run'[u] = run[u]
     /\ Len(run') = Len(tasks')
     /\ Len(tasks') # Len(tasks) =>
          /\ Len(tasks') = Len(tasks) + 1
          /\ response'.op = "postDownload"]_vars

\* One task's run has failed while the other task is still downloading,
\* untouched.
C28_Witness ==
  \E t, u \in DOMAIN tasks :
    /\ tasks[t].status = "failed" /\ run[t].pc = "done"
    /\ tasks[t].history = <<"pending", "downloading", "failed">>
    /\ tasks[u].status = "downloading" /\ tasks[u].error = Null
    /\ run[u].pc = "read" /\ tasks[u].progress = 50 * Scale

\* C29: a step adds a catalog row only as the turn of a run whose process
\* exited with code 0, which takes its task from downloading to processing;
\* it adds exactly one row, the run has inserted none before, and the row's
\* id is recorded on the task; the run leaves that turn for good.
C29_InsertWhileProcessing ==
  [][/\ tracks' \ tracks # {} =>
          \E t \in DOMAIN tasks :
            /\ run[t].pc = "exited" /\ run'[t].pc = "lyrics"
            /\ run[t].result = Null /\ run'[t].exitCode = 0
            /\ tasks[t].status = "downloading" /\ tasks'[t].status = "processing"
            /\ tasks[t].trackId = Null
            /\ Cardinality(tracks' \ tracks) = 1
            /\ \E row \in tracks' \ tracks :
                 tasks'[t].trackId = Some(row.id) /\ run'[t].result = Some(row.id)
     /\ \A t \in DOMAIN tasks :
          run[t].pc \in {"lyrics", "done"} => run'[t].pc \in {"lyrics", "done"}]_vars

\* A run has inserted its row and is processing.
C29_Witness ==
  \E t \in DOMAIN tasks :
    /\ run[t].pc = "lyrics" /\ tasks[t].status = "processing"
    /\ \E row \in tracks : tasks[t].trackId = Some(row.id) /\ row.youtube_url = tasks[t].url

LyricsWrites == {"putLyrics", "uploadLrc"}

\* C27: a track never has two lyrics rows; after a PUT or an upload that
\* succeeded the track has one row and GET answers the content just written;
\* only a write or a delete changes what GET answers; DELETE lyrics answers
\* 204 and makes GET answer 404; PUT for a missing track and DELETE without
\* lyrics answer 404 and change nothing.
C27_LyricsUpsert ==
  /\ [](/\ \A id \in 1..2 : Cardinality({l \in lyrics : l.track_id = id}) <= 1
        /\ (response.op \in LyricsWrites /\ response.code = 200) =>
             /\ Cardinality({l \in lyrics : l.track_id = response.id}) = 1
             /\ lyricsResponse(response.id).code = 200
             /\ lyricsResponse(response.id).body.content = response.content
        /\ (response.op = "deleteLyrics" /\ response.code = 204) =>
             lyricsResponse(response.id).code = 404)
  /\ [][/\ response'.op = "putLyrics" =>
             IF findById(tracks, response'.id) # Null
             THEN response'.code = 200
             ELSE /\ response'.code = 404
                  /\ UNCHANGED <<tasks, run, tracks, nextTrackId, lyrics, files, deleted,
                                 uploads>>
        /\ response'.op = "deleteLyrics" =>
             IF \E l \in lyrics : l.track_id = response'.id
             THEN response'.code = 204
             ELSE /\ response'.code = 404
                  /\ UNCHANGED <<tasks, run, tracks, nextTrackId, lyrics, files, deleted,
                                 uploads>>
        /\ lyrics' # lyrics =>
             \/ response'.op \in LyricsWrites /\ response'.code = 200
             \/ response'.op \in {"deleteLyrics", "deleteTrack"} /\ response'.code = 204]_vars

\* An upload has replaced the lyrics a PUT had written while the upload was
\* suspended: there is one row, with the uploaded content.
C27_Witness ==
  /\ response.op = "uploadLrc" /\ response.code = 200
  /\ response.content = <<"[ar:Artist]", "\n", "[00:12.34]", "la la">>
  /\ lyrics = {lyricsRow(1, response.content, TRUE)}
  /\ uploads # <<>>

\* C37 as stated: in every 206 response of GET /tracks/{id}/stream the
\* Content-Length header equals the number of body bytes, which is not
\* negative, and Content-Range names a range with 0 <= start <= end < size.
C37_RangeWithinFile ==
  (response.op = "streamTrack" /\ response.code = 206) =>
    /\ response.headers["Content-Length"] = String(Len(response.body))
    /\ \E st \in RangeNumbers, en \in RangeNumbers :
         /\ response.headers["Content-Range"] =
              <<"bytes ">> \o String(st) \o <<"-">> \o String(en) \o <<"/">>
                \o String(Len(RequestedFile))
         /\ st <= en /\ en < Len(RequestedFile)

\* C31 as stated: two runs whose extract+transcode processes are active at
\* the same time write to different output paths.
C31_DistinctPaths ==
  \A t1, t2 \in DOMAIN tasks :
    (t1 # t2 /\ run[t1].pc \in {"read", "exited"} /\ run[t2].pc \in {"read", "exited"})
      => run[t1].filename # run[t2].filename

\* C32: no task of the registry is pending and every task was set to
\* downloading right after it was created; the task a 202 response names is
\* downloading or later in the state the response is produced in; no status
\* poll reports pending.
C32_NeverPending ==
  /\ \A t \in DOMAIN tasks :
       /\ tasks[t].status # "pending"
       /\ Len(tasks[t].history) >= 2
       /\ tasks[t].history[1] = "pending" /\ tasks[t].history[2] = "downloading"
  /\ (response.op = "postDownload" /\ response.code = 202) =>
       /\ response.task_id \in DOMAIN tasks
       /\ tasks[response.task_id].status \in {"downloading", "failed"}
  /\ (response.op = "getStatus" /\ response.code = 200) => response.body.status # "pending"

\* A poll has found a task, whose run has not had a second turn yet,
\* downloading.
C32_Witness ==
  /\ response.op = "getStatus" /\ response.code = 200
  /\ response.body.status = "downloading" /\ response.body.progress = 0
  /\ run[response.taskId].pc = "metaText"
  /\ tasks[response.taskId].history = <<"pending", "downloading">>

\* C33: POST /download with a URL that yields an external-id answers 409 and
\* creates nothing when a catalog row has that external-id, and otherwise
\* answers 202 and creates a task, whatever tasks the registry holds.
C33_RejectedIffCatalogued ==
  [][response'.op = "postDownload" =>
       LET youtubeId == extractYoutubeId(response'.url)
       IN youtubeId # Null =>
            IF \E r \in tracks : r.youtube_id = youtubeId
            THEN response'.code = 409 /\ tasks' = tasks /\ run' = run
            ELSE /\ response'.code = 202
                 /\ Len(tasks') = Len(tasks) + 1
                 /\ response'.task_id = Len(tasks')
                 /\ tasks'[Len(tasks')].url = response'.url]_vars

\* The row of a completed task was deleted and the same URL has just been
\* accepted again, as a new task.
C33_Witness ==
  /\ response.op = "postDownload" /\ response.code = 202 /\ response.task_id = 2
  /\ tasks[1].url = response.url /\ tasks[1].status = "completed"
  /\ Val(tasks[1].trackId) \in deleted
  /\ tracks = {}

\* The run of t has its turn after the exit of its process with code 0.
ExitedOkStep(t) ==
  /\ run[t].pc = "exited"
  /\ Len(tasks'[t].history) > Len(tasks[t].history)
  /\ tasks'[t].history[Len(tasks[t].history) + 1] = "processing"

\* C34 as stated: when the process of a task exits with code 0 while another
\* run for the same external-id, which has inserted its row, is still
\* active, the task fails and the catalog is left as it is.
C34_SecondInsertFails ==
  [][\A t1, t2 \in DOMAIN tasks :
       (t1 # t2 /\ tasks[t1].url = tasks[t2].url
          /\ run[t1].pc = "lyrics" /\ ExitedOkStep(t2))
         => tasks'[t2].status = "failed" /\ tracks' = tracks]_vars

\* C34 amended: the same, provided the row the first run inserted is still
\* in the catalog: then the second task fails with error set and trackId
\* null and the catalog is left as it is; two tasks for one external-id are
\* both completed only if the row of one of them has been deleted.
C34_SecondInsertFailsUnlessDeleted ==
  /\ [](\A t1, t2 \in DOMAIN tasks :
          (t1 # t2 /\ tasks[t1].url = tasks[t2].url
             /\ tasks[t1].status = "completed" /\ tasks[t2].status = "completed")
            => /\ tasks[t1].trackId # tasks[t2].trackId
               /\ Val(tasks[t1].trackId) \in deleted \/ Val(tasks[t2].trackId) \in deleted)
  /\ [][\A t1, t2 \in DOMAIN tasks :
          (t1 # t2 /\ tasks[t1].url = tasks[t2].url
             /\ tasks[t1].trackId # Null /\ Val(tasks[t1].trackId) \notin deleted
             /\ ExitedOkStep(t2))
            => /\ tasks'[t2].status = "failed"
               /\ tasks'[t2].error # Null /\ tasks'[t2].trackId = Null
               /\ tracks' = tracks]_vars

\* Both runs have returned: the first to insert is completed and its row is
\* in the catalog, the other failed on its insert.
C34_Witness ==
  \E t1, t2 \in DOMAIN tasks :
    /\ tasks[t1].url = tasks[t2].url
    /\ run[t1].pc = "done" /\ run[t2].pc = "done"
    /\ tasks[t1].status = "completed"
    /\ \E r \in tracks : tasks[t1].trackId = Some(r.id)
    /\ tasks[t2].status = "failed" /\ tasks[t2].trackId = Null
    /\ tasks[t2].error = Some(uniqueError)
    /\ Cardinality(tracks) = 1

\* What a run has read of its process's output so far.
Consumed(t) == SubSeq(run[t].stdout, 1, Len(run[t].stdout) - Len(run[t].out))

\* C36: whatever chunks the output arrived in, after reading a part of it
\* the progress is the one the lines of that part ended by a newline give
\* when parsed in order, each as a whole, and the buffer is the part after
\* its last newline, which has not been parsed; that is still so when the
\* output has ended.
C36_ChunkingIrrelevant ==
  \A t \in DOMAIN tasks :
    run[t].pc \in {"read", "exited", "stderr"} =>
      LET pieces == split(Consumed(t))
      IN /\ run[t].buffer = pieces[Len(pieces)]
         /\ tasks[t].progress = applyLines(0, SubSeq(pieces, 1, Len(pieces) - 1))

\* The second line of the output is arriving in two chunks: its first part
\* is in the buffer, unparsed, and the progress is that of the first line.
C36_Witness ==
  /\ run[1].pc = "read" /\ run[1].buffer = <<"[download] ", "3">>
  /\ run[1].out = <<"0", "%", "\n">>
  /\ tasks[1].progress = 50 * Scale

\* C35: when the lyrics lookup of a run returns, the task becomes completed,
\* and if the track the run inserted has a lyrics row by then, the lyrics
\* table is left as it is; a track never has two lyrics rows.
C35_EnrichmentKeepsLyrics ==
  /\ [](\A r \in tracks : Cardinality({l \in lyrics : l.track_id = r.id}) <= 1)
  /\ [][\A t \in DOMAIN tasks :
          (run[t].pc = "lyrics" /\ run'[t].pc = "done") =>
            /\ tasks'[t].status = "completed"
            /\ (\E l \in lyrics : Some(l.track_id) = tasks[t].trackId) => lyrics' = lyrics]_vars

\* The run has just returned, completed, and the track has the lyrics an
\* upload wrote while the lookup was under way.
C35_Witness ==
  /\ response = NoResponse
  /\ tasks[1].status = "completed" /\ run[1].pc = "done"
  /\ lyrics = {lyricsRow(1, <<"[ar:Artist]", "\n", "[00:12.34]", "la la">>, TRUE)}
  /\ uploads = <<>>

\* C38: no step gives a row a thumbnail or changes the one it has: a row that
\* appears has none, so the cover of every track the API inserted is
\* answered with 404; a cover answered with 200 carries the cache-control
\* header and is a non-empty file named by a thumbnail that was in the table
\* from the start.
C38_ThumbnailNeverSet ==
  /\ [][\A n \in tracks' :
          IF \E r \in tracks : r.id = n.id
          THEN \E r \in tracks : r.id = n.id /\ r.thumbnail = n.thumbnail
          ELSE n.thumbnail = Null]_vars
  /\ [](\A r \in tracks : r.id # 1 => r.thumbnail = Null)
  /\ [](response.op = "getCover" =>
          IF response.code = 200
          THEN /\ response.id = 1
               /\ response.headers["Cache-Control"] = <<"public, max-age=86400">>
               /\ \E r \in tracks : /\ r.id = 1
                                    /\ r.thumbnail = Some(coverName)
                                    /\ coverName \in DOMAIN files
                                    /\ files[coverName] # <<>>
                                    /\ response.body = files[coverName]
          ELSE /\ response.code = 404
               /\ \A r \in tracks :
                    r.id = response.id =>
                      \/ r.thumbnail \in {Null, Some(<<>>)}
                      \/ Val(r.thumbnail) \notin DOMAIN files
                      \/ files[Val(r.thumbnail)] = <<>>)

\* The run has inserted its track and completed, the track was renamed by a
\* PATCH, its audio file is in place, and its cover is answered with 404.
C38_Witness ==
  /\ tasks[1].status = "completed"
  /\ \E r \in tracks : /\ r.id = 2 /\ r.title = "Renamed" /\ r.thumbnail = Null
                       /\ r.filename \in DOMAIN files
  /\ response = [op |-> "getCover", id |-> 2, code |-> 404, error |-> "Cover not found"]

====
